---- MODULE Spec2Model ----
(***************************************************************************)
(* A model of chip::System::StaticAllocatorBitmap                          *)
(* (src/system/SystemPoolNonHeapBitmapAllocator.cpp): a fixed-capacity     *)
(* pool of equally sized slots whose occupancy is kept in an array of      *)
(* atomic words, one bit per slot.  Every access to a bitmap word is one   *)
(* step of the calling thread; the steps of different threads interleave   *)
(* freely.  A load returns the latest value of the word; a relaxed load    *)
(* that returned an older value would only make the following              *)
(* compare-and-swap fail, as a lost race does.                             *)
(*                                                                         *)
(* The usage counter is updated by IncreaseUsage and DecreaseUsage, whose  *)
(* bodies are not part of the translated sources; the pool's description   *)
(* calls the counter best-effort.  An update is a read of the counter      *)
(* followed by a write.  CounterSpec lets the updates of different         *)
(* threads overlap, so that one can be lost; in the other specifications   *)
(* no other thread's update falls between the read and the write.          *)
(*                                                                         *)
(* Spec is the concurrent program with callers that free only what they    *)
(* hold; SeqSpec is one caller issuing any calls one after the other,      *)
(* with a log of the completed calls.                                      *)
(***************************************************************************)
EXTENDS Naturals, Integers, Sequences, FiniteSets, Bags

\* ------------------------------------------------------------- bounds

\* Number of threads calling into one pool.
NumThreads == 2

\* Largest capacity a pool is constructed with.
MaxCapacity == 4

\* Largest element size a pool is constructed with.
MaxElementSize == 2

\* Width in bits of one bitmap word (tBitChunkType), scaled down so that a
\* small pool spans several words and ends inside a word.
kBitChunkSize == 2

\* Longest sequence of calls of the sequential specification.
MaxOps == 6

\* Width in bits of the usage counter (an unsigned integer), scaled down.
UsageBits == 4

\* Most counter updates computed from a stale read in a run of CounterSpec.
MaxLostUpdates == 1

\* --------------------------------------------------------- constants

\* The null pointer; no slot has this address.
nullptr == 0

\* Address of the storage region handed to the constructor.
mElements == 3

Threads == 1 .. NumThreads

VARIABLES
    constructed,   \* the constructor has run
    mCapacity,     \* number of slots
    mElementSize,  \* bytes per slot
    mUsage,        \* word index -> value of the atomic word
    liveCount,     \* the usage counter, written by IncreaseUsage / DecreaseUsage
    died,          \* a VerifyOrDie failed: the process has terminated
    pc,            \* thread -> position in its current call
    word,          \* thread -> local `word`
    offset,        \* thread -> local `offset`
    value,         \* thread -> local `value`
    element,       \* thread -> argument of its Deallocate call
    ret,           \* thread -> pointer returned by its Allocate call
    completed,     \* thread -> result of its ForEachActiveObjectInner call
    visited,       \* thread -> <<address, answer>> of each lambda invocation
    held,          \* thread -> addresses it got from Allocate and has not freed
    misuse,        \* some Deallocate was called on an address its caller did not hold
    pre,           \* sequential runs: occupied slots when the current call began
    seqlog,        \* sequential runs: the completed calls, oldest first
    interfered,    \* observed runs: thread -> another thread changed the bitmap
                   \*   while this thread's Allocate was scanning
    freeAllAlong,  \* observed runs: thread -> some slot was free at every
                   \*   instant of this thread's Allocate so far
    lowerFree,     \* observed runs: thread -> a slot of lower index was free
                   \*   when this thread's compare-and-swap claimed its slot
    casCount,      \* observed runs: thread -> compare-and-swap attempts of its call
    reclaimed,     \* misuse runs: thread -> the slot of its Deallocate was claimed
                   \*   again since its fetch_and
    stayedSet,     \* enumeration runs: thread -> slots occupied at every instant
                   \*   of its ForEachActiveObjectInner call so far
    stayedFree,    \* enumeration runs: thread -> slots free at every instant
                   \*   of its ForEachActiveObjectInner call so far
    lambdaElement, \* thread -> argument of the Deallocate its walk's lambda runs
    lambdaValue,   \* thread -> local `value` of that Deallocate
    usageSeen,     \* counter runs: thread -> the values the counter has held since
                   \*   the thread came to its IncreaseUsage / DecreaseUsage
    lostUpdates,   \* counter runs: number of counter updates computed from a
                   \*   value that was no longer the counter's
    now,                             \* MdnsServer: monotonic time in ms
    mDiscoveryExpirationMs,          \* MdnsServer: when commissionable advertising expires
    mExtendedDiscoveryExpirationMs,  \* MdnsServer: when extended discovery expires
    mDiscoveryTimeoutSecs,           \* MdnsServer: configured discovery timeout
    extendedDiscoveryTimeoutSecs,    \* MdnsServer: stored extended discovery timeout
    fabricInitialized,               \* the fabric table holds an initialized fabric
    buildFlags,                      \* the CHIP_DEVICE_CONFIG_ENABLE_* options compiled in
    timers,                          \* bag of the timers armed, one <<callback, due time>>
                                     \*   for each StartTimer call that succeeded
    handler,                         \* the MdnsServer function that ran in the last step
    calls                            \* what that function called, in order

poolvars == <<constructed, mCapacity, mElementSize, mUsage, liveCount, died>>
callvars == <<pc, word, offset, value, element, ret, completed, visited>>
ghostvars == <<held, misuse>>
racevars == <<interfered, freeAllAlong, lowerFree, casCount>>
watchvars == <<reclaimed, stayedSet, stayedFree>>
mdnsvars == <<now, mDiscoveryExpirationMs, mExtendedDiscoveryExpirationMs,
              mDiscoveryTimeoutSecs, extendedDiscoveryTimeoutSecs, fabricInitialized,
              buildFlags, timers, handler, calls>>
lambdavars == <<lambdaElement, lambdaValue>>
countervars == <<usageSeen, lostUpdates>>
logvars == <<pre, seqlog, racevars, watchvars, lambdavars, countervars, mdnsvars>>
vars == <<poolvars, callvars, ghostvars, logvars>>

\* ------------------------------------------------------ bit arithmetic

RECURSIVE Pow2(_)
Pow2(n) == IF n = 0 THEN 1 ELSE 2 * Pow2(n - 1)

\* kBit1 << offset
Shl(off) == Pow2(off)

\* (value & (kBit1 << offset)) != 0
BitSet(v, off) == (v \div Shl(off)) % 2 = 1

\* value | (kBit1 << offset)
OrBit(v, off) == IF BitSet(v, off) THEN v ELSE v + Shl(off)

\* value & ~(kBit1 << offset)
AndNotBit(v, off) == IF BitSet(v, off) THEN v - Shl(off) ELSE v

\* Values a bitmap word can hold.
WordValues == 0 .. (Pow2(kBitChunkSize) - 1)

\* Indices of the words the pool uses: word * kBitChunkSize < mCapacity.
WordsOf(cap) == {w \in 0 .. cap : w * kBitChunkSize < cap}

\* ---------------------------------------------------------- addressing

\* At(index): the address of slot `index`.
At(index) == mElements + index * mElementSize

Slots == 0 .. (mCapacity - 1)

SlotAddresses == {At(i) : i \in Slots}

\* Bit `i` of the whole bitmap.
Occupied(i) == BitSet(mUsage[i \div kBitChunkSize], i % kBitChunkSize)

OccupiedSlots == {i \in Slots : Occupied(i)}

\* Addresses a caller may pass to Deallocate: the null pointer, addresses
\* below the storage, every byte of the storage and a few bytes past it.
ElementInputs == 0 .. (At(mCapacity) + mElementSize)

\* --------------------------------------------------------- MdnsServer
\* chip::app::MdnsServer (src/app/server/Mdns.cpp).  Its functions run on
\* the one event loop of the stack, so each is a single step.  The model
\* keeps the two expiration times, the armed timers, and, for the function
\* that ran in the last step, what it was called with, what it found, and
\* the calls it made to the advertiser, to its own advertising functions
\* and to the timer service.  The compile-time options are a choice made
\* once.

\* milliseconds per second, as in `mDiscoveryTimeoutSecs * 1000`.
kMsPerSec == 1000

\* The value of an expiration time that is not set.
TIMEOUT_CLEARED == 0

\* The timeout value that asks for no expiration at all.
CHIP_DEVICE_CONFIG_DISCOVERY_NO_TIMEOUT == 0 - 1

\* The extended discovery timeout value that turns extended discovery off.
CHIP_DEVICE_CONFIG_DISCOVERY_DISABLED == 0

\* The monotonic clock advances in steps of TickMs up to MaxNowMs.
TickMs == 500
MaxNowMs == 1500

\* Largest timeout, in seconds, the server is configured with.
MaxTimeoutSecs == 1

\* StartServer is not called while this many timers are armed.
MaxTimers == 2

TimeoutInputs == {CHIP_DEVICE_CONFIG_DISCOVERY_NO_TIMEOUT} \cup (0 .. MaxTimeoutSecs)

CommissioningModes == {"kDisabled", "kEnabledBasic", "kEnabledEnhanced"}

BuildOptions == {"EXTENDED_DISCOVERY", "COMMISSIONABLE_DISCOVERY", "COMMISSIONER_DISCOVERY"}

\* A call made by a function of the server.
Call(f, a) == [fn |-> f, arg |-> a]

\* What is recorded of the function that ran in the last step: its name,
\* its argument and the two expiration times it found.
Ran(f, mode) ==
    [fn |-> f, mode |-> mode,
     expiration |-> mDiscoveryExpirationMs,
     extendedExpiration |-> mExtendedDiscoveryExpirationMs]

\* No function of the server ran in the last step.
NoneRan ==
    [fn |-> "none", mode |-> "-",
     expiration |-> TIMEOUT_CLEARED, extendedExpiration |-> TIMEOUT_CLEARED]

\* The pool's variables, for the runs of the server alone.
PoolUnused ==
    /\ constructed = FALSE
    /\ mCapacity = 1
    /\ mElementSize = 1
    /\ mUsage = [w \in {0} |-> 0]
    /\ liveCount = 0
    /\ died = FALSE
    /\ pc = [t \in Threads |-> "idle"]
    /\ word = [t \in Threads |-> 0]
    /\ offset = [t \in Threads |-> 0]
    /\ value = [t \in Threads |-> 0]
    /\ element = [t \in Threads |-> nullptr]
    /\ ret = [t \in Threads |-> nullptr]
    /\ completed = [t \in Threads |-> FALSE]
    /\ visited = [t \in Threads |-> <<>>]
    /\ held = [t \in Threads |-> {}]
    /\ misuse = FALSE
    /\ pre = {}
    /\ seqlog = <<>>
    /\ interfered = [t \in Threads |-> FALSE]
    /\ freeAllAlong = [t \in Threads |-> FALSE]
    /\ lowerFree = [t \in Threads |-> FALSE]
    /\ casCount = [t \in Threads |-> 0]
    /\ reclaimed = [t \in Threads |-> FALSE]
    /\ stayedSet = [t \in Threads |-> {}]
    /\ stayedFree = [t \in Threads |-> {}]
    /\ lambdaElement = [t \in Threads |-> nullptr]
    /\ lambdaValue = [t \in Threads |-> 0]
    /\ usageSeen = [t \in Threads |-> {}]
    /\ lostUpdates = 0

\* The server's variables, for the runs of the pool alone.
MdnsUnused ==
    /\ now = 0
    /\ mDiscoveryExpirationMs = TIMEOUT_CLEARED
    /\ mExtendedDiscoveryExpirationMs = TIMEOUT_CLEARED
    /\ mDiscoveryTimeoutSecs = CHIP_DEVICE_CONFIG_DISCOVERY_NO_TIMEOUT
    /\ extendedDiscoveryTimeoutSecs = CHIP_DEVICE_CONFIG_DISCOVERY_DISABLED
    /\ fabricInitialized = FALSE
    /\ buildFlags = {}
    /\ timers = EmptyBag
    /\ handler = NoneRan
    /\ calls = <<>>

\* A server in some build and configuration, before StartServer is called.
MdnsInit ==
    /\ PoolUnused
    /\ now = 0
    /\ mDiscoveryExpirationMs = TIMEOUT_CLEARED
    /\ mExtendedDiscoveryExpirationMs = TIMEOUT_CLEARED
    /\ mDiscoveryTimeoutSecs \in TimeoutInputs
    /\ extendedDiscoveryTimeoutSecs \in TimeoutInputs
    /\ fabricInitialized \in BOOLEAN
    /\ buildFlags \in SUBSET BuildOptions
    /\ timers = EmptyBag
    /\ handler = NoneRan
    /\ calls = <<>>

\* Time passes.
MdnsTick ==
    /\ now < MaxNowMs
    /\ now' = now + TickMs
    /\ handler' = NoneRan
    /\ calls' = <<>>
    /\ UNCHANGED <<mDiscoveryExpirationMs, mExtendedDiscoveryExpirationMs,
                   mDiscoveryTimeoutSecs, extendedDiscoveryTimeoutSecs,
                   fabricInitialized, buildFlags, timers>>

\* The device is commissioned into its first fabric, or leaves its last one.
FabricTableChanges ==
    /\ fabricInitialized' = ~fabricInitialized
    /\ handler' = NoneRan
    /\ calls' = <<>>
    /\ UNCHANGED <<now, mDiscoveryExpirationMs, mExtendedDiscoveryExpirationMs,
                   mDiscoveryTimeoutSecs, extendedDiscoveryTimeoutSecs,
                   buildFlags, timers>>

\* Stop and start the advertiser, then AdvertiseOperational(): the common
\* opening of StartServer and of the two expiration callbacks.
RestartCalls ==
    <<Call("StopPublishDevice", "-"), Call("Start", "-"), Call("AdvertiseOperational", "-")>>

\* AdvertiseCommissioner(), in builds with commissioner discovery.
CommissionerCalls ==
    IF "COMMISSIONER_DISCOVERY" \in buildFlags
    THEN <<Call("AdvertiseCommissioner", "-")>>
    ELSE <<>>

\* Mutant: the timer is armed and the expiration set also for NO_TIMEOUT.
SchedulesAlways(secs) == TRUE

\* Schedule*Expiration returns at once when the timeout is NO_TIMEOUT.
Schedules(secs) == secs # CHIP_DEVICE_CONFIG_DISCOVERY_NO_TIMEOUT

\* now + timeout * 1000: the expiration time Schedule*Expiration sets.
ExpirationAfter(secs) == now + secs * kMsPerSec

\* ScheduleDiscoveryExpiration(): the expiration it leaves where it found
\* `old`, the timers it leaves where it found `pending` (StartTimer may
\* fail: `armed`), and the calls it makes.
DiscoveryExpirationScheduled(old) ==
    IF Schedules(mDiscoveryTimeoutSecs)
    THEN ExpirationAfter(mDiscoveryTimeoutSecs)
    ELSE old
DiscoveryTimerArmed(pending, armed) ==
    IF Schedules(mDiscoveryTimeoutSecs) /\ armed
    THEN pending (+) SetToBag({<<"HandleDiscoveryExpiration",
                                  now + mDiscoveryTimeoutSecs * kMsPerSec>>})
    ELSE pending
ScheduleDiscoveryCalls ==
    <<Call("ScheduleDiscoveryExpiration", "-")>>
    \o (IF Schedules(mDiscoveryTimeoutSecs)
        THEN <<Call("StartTimer", "HandleDiscoveryExpiration")>> ELSE <<>>)

\* ScheduleExtendedDiscoveryExpiration(), in the same three parts; `old` is
\* the extended expiration it finds.
ExtendedExpirationScheduled(old) ==
    IF Schedules(extendedDiscoveryTimeoutSecs)
    THEN ExpirationAfter(extendedDiscoveryTimeoutSecs)
    ELSE old
ExtendedTimerArmed(pending, armed) ==
    IF Schedules(extendedDiscoveryTimeoutSecs) /\ armed
    THEN pending (+) SetToBag({<<"HandleExtendedDiscoveryExpiration",
                                  now + extendedDiscoveryTimeoutSecs * kMsPerSec>>})
    ELSE pending
ScheduleExtendedCalls ==
    <<Call("ScheduleExtendedDiscoveryExpiration", "-")>>
    \o (IF Schedules(extendedDiscoveryTimeoutSecs)
        THEN <<Call("StartTimer", "HandleExtendedDiscoveryExpiration")>> ELSE <<>>)

\* Extended discovery is compiled in and not turned off.
ExtendedDiscoveryOn ==
    /\ "EXTENDED_DISCOVERY" \in buildFlags
    /\ extendedDiscoveryTimeoutSecs # CHIP_DEVICE_CONFIG_DISCOVERY_DISABLED

\* Mutant: a callback at the very instant of the expiration does not act.
StillPendingAtExpiry(expiration, t) == expiration >= t

\* `expiration > now`: the timeout was set again since the timer was armed.
StillPending(expiration, t) == expiration > t

\* The two early returns of an expiration callback.
CallbackIgnored(expiration) ==
    expiration = TIMEOUT_CLEARED \/ StillPending(expiration, now)

\* MdnsServer::OnDiscoveryExpiration, with `pending` the timers still armed.
OnDiscoveryExpiration(pending, armed) ==
    /\ handler' = Ran("OnDiscoveryExpiration", "-")
    /\ IF CallbackIgnored(mDiscoveryExpirationMs)
       THEN /\ calls' = <<>>
            /\ timers' = pending
            /\ UNCHANGED <<mDiscoveryExpirationMs, mExtendedDiscoveryExpirationMs>>
       ELSE /\ calls' = RestartCalls
                         \o (IF ExtendedDiscoveryOn
                             THEN <<Call("AdvertiseCommissionableNode", "kDisabled")>>
                                  \o ScheduleExtendedCalls
                             ELSE <<>>)
                         \o CommissionerCalls
            /\ mExtendedDiscoveryExpirationMs' =
                    IF ExtendedDiscoveryOn
                    THEN ExtendedExpirationScheduled(mExtendedDiscoveryExpirationMs)
                    ELSE mExtendedDiscoveryExpirationMs
            /\ timers' = IF ExtendedDiscoveryOn THEN ExtendedTimerArmed(pending, armed)
                         ELSE pending
            /\ mDiscoveryExpirationMs' = TIMEOUT_CLEARED
    /\ UNCHANGED <<now, mDiscoveryTimeoutSecs, extendedDiscoveryTimeoutSecs,
                   fabricInitialized, buildFlags>>

\* MdnsServer::OnExtendedDiscoveryExpiration.
OnExtendedDiscoveryExpiration(pending) ==
    /\ handler' = Ran("OnExtendedDiscoveryExpiration", "-")
    /\ timers' = pending
    /\ IF CallbackIgnored(mExtendedDiscoveryExpirationMs)
       THEN /\ calls' = <<>>
            /\ UNCHANGED mExtendedDiscoveryExpirationMs
       ELSE /\ calls' = RestartCalls \o CommissionerCalls
            /\ mExtendedDiscoveryExpirationMs' = TIMEOUT_CLEARED
    /\ UNCHANGED <<now, mDiscoveryExpirationMs, mDiscoveryTimeoutSecs,
                   extendedDiscoveryTimeoutSecs, fabricInitialized, buildFlags>>

\* The timer service calls HandleDiscoveryExpiration when a timer is due.
DiscoveryTimerFires(tm, armed) ==
    /\ BagIn(tm, timers)
    /\ tm[1] = "HandleDiscoveryExpiration"
    /\ tm[2] <= now
    /\ OnDiscoveryExpiration(timers (-) SetToBag({tm}), armed)

\* The timer service calls HandleExtendedDiscoveryExpiration when a timer is due.
ExtendedTimerFires(tm) ==
    /\ BagIn(tm, timers)
    /\ tm[1] = "HandleExtendedDiscoveryExpiration"
    /\ tm[2] <= now
    /\ OnExtendedDiscoveryExpiration(timers (-) SetToBag({tm}))

\* Mutant: an uncommissioned device advertises the mode it was asked for.
UnprovisionedModeAsGiven(mode) == mode

\* The commissioning mode StartServer advertises without operational
\* credentials: kEnabledBasic, whatever its argument.
UnprovisionedMode(mode) == "kEnabledBasic"

\* MdnsServer::StartServer(mode).
StartServer(mode, armed) ==
    /\ BagCardinality(timers) < MaxTimers
    /\ handler' = Ran("StartServer", mode)
    /\ IF fabricInitialized
       THEN IF mode # "kDisabled"
            THEN /\ calls' = <<Call("ClearTimeouts", "-")>> \o RestartCalls
                              \o <<Call("AdvertiseCommissionableNode", mode)>>
                              \o CommissionerCalls
                 /\ mDiscoveryExpirationMs' = TIMEOUT_CLEARED
                 /\ mExtendedDiscoveryExpirationMs' = TIMEOUT_CLEARED
                 /\ UNCHANGED timers
            ELSE IF ExtendedDiscoveryOn
                 THEN /\ calls' = <<Call("ClearTimeouts", "-")>> \o RestartCalls
                                   \o <<Call("AdvertiseCommissionableNode", mode)>>
                                   \o ScheduleExtendedCalls
                                   \o CommissionerCalls
                      /\ mDiscoveryExpirationMs' = TIMEOUT_CLEARED
                      /\ mExtendedDiscoveryExpirationMs' =
                              ExtendedExpirationScheduled(TIMEOUT_CLEARED)
                      /\ timers' = ExtendedTimerArmed(timers, armed)
                 ELSE /\ calls' = <<Call("ClearTimeouts", "-")>> \o RestartCalls
                                   \o CommissionerCalls
                      /\ mDiscoveryExpirationMs' = TIMEOUT_CLEARED
                      /\ mExtendedDiscoveryExpirationMs' = TIMEOUT_CLEARED
                      /\ UNCHANGED timers
       ELSE IF "COMMISSIONABLE_DISCOVERY" \in buildFlags
            THEN /\ calls' = <<Call("ClearTimeouts", "-")>> \o RestartCalls
                              \o <<Call("AdvertiseCommissionableNode", UnprovisionedMode(mode))>>
                              \o ScheduleDiscoveryCalls
                              \o CommissionerCalls
                 /\ mDiscoveryExpirationMs' = DiscoveryExpirationScheduled(TIMEOUT_CLEARED)
                 /\ mExtendedDiscoveryExpirationMs' = TIMEOUT_CLEARED
                 /\ timers' = DiscoveryTimerArmed(timers, armed)
            ELSE /\ calls' = <<Call("ClearTimeouts", "-")>> \o RestartCalls
                              \o CommissionerCalls
                 /\ mDiscoveryExpirationMs' = TIMEOUT_CLEARED
                 /\ mExtendedDiscoveryExpirationMs' = TIMEOUT_CLEARED
                 /\ UNCHANGED timers
    /\ UNCHANGED <<now, mDiscoveryTimeoutSecs, extendedDiscoveryTimeoutSecs,
                   fabricInitialized, buildFlags>>

\* MdnsServer::SetExtendedDiscoveryTimeoutSecs(secs), in builds with extended
\* discovery: the value is put in the key-value store, from where
\* GetExtendedDiscoveryTimeoutSecs reads it from then on.
SetExtendedDiscoveryTimeoutSecs(secs) ==
    /\ "EXTENDED_DISCOVERY" \in buildFlags
    /\ handler' = Ran("SetExtendedDiscoveryTimeoutSecs", "-")
    /\ calls' = <<Call("KeyValueStoreMgr.Put", "ExtDiscKey")>>
    /\ extendedDiscoveryTimeoutSecs' = secs
    /\ UNCHANGED <<now, mDiscoveryExpirationMs, mExtendedDiscoveryExpirationMs,
                   mDiscoveryTimeoutSecs, fabricInitialized, buildFlags, timers>>

\* The server on its event loop: time passes, the fabric table changes,
\* the extended discovery timeout is set, StartServer is called, a due
\* timer fires.
MdnsNext ==
    \/ MdnsTick /\ UNCHANGED <<poolvars, callvars, ghostvars, pre, seqlog, racevars, watchvars, lambdavars, countervars>>
    \/ FabricTableChanges
          /\ UNCHANGED <<poolvars, callvars, ghostvars, pre, seqlog, racevars, watchvars, lambdavars, countervars>>
    \/ \E secs \in TimeoutInputs :
          SetExtendedDiscoveryTimeoutSecs(secs)
          /\ UNCHANGED <<poolvars, callvars, ghostvars, pre, seqlog, racevars, watchvars, lambdavars, countervars>>
    \/ \E mode \in CommissioningModes, armed \in BOOLEAN :
          StartServer(mode, armed)
          /\ UNCHANGED <<poolvars, callvars, ghostvars, pre, seqlog, racevars, watchvars, lambdavars, countervars>>
    \/ \E tm \in BagToSet(timers), armed \in BOOLEAN :
          DiscoveryTimerFires(tm, armed)
          /\ UNCHANGED <<poolvars, callvars, ghostvars, pre, seqlog, racevars, watchvars, lambdavars, countervars>>
    \/ \E tm \in BagToSet(timers) :
          ExtendedTimerFires(tm)
          /\ UNCHANGED <<poolvars, callvars, ghostvars, pre, seqlog, racevars, watchvars, lambdavars, countervars>>

MdnsSpec == MdnsInit /\ [][MdnsNext]_vars

\* ------------------------------------------------------- construction

\* Before the constructor runs the caller-supplied bitmap memory holds anything.
Init ==
    /\ constructed = FALSE
    /\ mCapacity \in 1 .. MaxCapacity
    /\ mElementSize \in 1 .. MaxElementSize
    /\ mUsage \in [WordsOf(mCapacity) -> WordValues]
    /\ liveCount = 0
    /\ died = FALSE
    /\ pc = [t \in Threads |-> "idle"]
    /\ word = [t \in Threads |-> 0]
    /\ offset = [t \in Threads |-> 0]
    /\ value = [t \in Threads |-> 0]
    /\ element = [t \in Threads |-> nullptr]
    /\ ret = [t \in Threads |-> nullptr]
    /\ completed = [t \in Threads |-> FALSE]
    /\ visited = [t \in Threads |-> <<>>]
    /\ held = [t \in Threads |-> {}]
    /\ misuse = FALSE
    /\ pre = {}
    /\ seqlog = <<>>
    /\ interfered = [t \in Threads |-> FALSE]
    /\ freeAllAlong = [t \in Threads |-> FALSE]
    /\ lowerFree = [t \in Threads |-> FALSE]
    /\ casCount = [t \in Threads |-> 0]
    /\ reclaimed = [t \in Threads |-> FALSE]
    /\ stayedSet = [t \in Threads |-> {}]
    /\ stayedFree = [t \in Threads |-> {}]
    /\ lambdaElement = [t \in Threads |-> nullptr]
    /\ lambdaValue = [t \in Threads |-> 0]
    /\ usageSeen = [t \in Threads |-> {}]
    /\ lostUpdates = 0
    /\ MdnsUnused

\* Mutant: the constructor leaves the word as it found it.
ConstructedWordKept(w) == mUsage[w]

\* What the constructor stores into word `w`.
ConstructedWord(w) == 0

\* StaticAllocatorBitmap::StaticAllocatorBitmap: store 0 in every word.
Construct ==
    /\ ~constructed
    /\ constructed' = TRUE
    /\ mUsage' = [w \in WordsOf(mCapacity) |-> ConstructedWord(w)]
    /\ UNCHANGED <<mCapacity, mElementSize, liveCount, died, callvars, ghostvars>>

\* The process runs: it is constructed and no VerifyOrDie has failed.
Running == constructed /\ ~died

\* ------------------------------------------------------------ Allocate

\* Mutant: the word count rounded down, so a last, partly used word is never scanned.
HasWholeWord(w) == (w + 1) * kBitChunkSize <= mCapacity

\* The outer loop condition: word * kBitChunkSize < mCapacity.
HasWord(w) == w * kBitChunkSize < mCapacity

\* Mutant: the inner loop bounded by the word width only.
InWord(w, off) == off < kBitChunkSize

\* Mutant: the inner loop's capacity test off by one.
InCapacityOffByOne(w, off) ==
    off < kBitChunkSize /\ off + w * kBitChunkSize <= mCapacity

\* The inner loop condition.
InCapacity(w, off) == off < kBitChunkSize /\ off + w * kBitChunkSize < mCapacity

\* Mutant: a plain store in place of the compare-and-swap.
CasSucceedsAlways(current, expected) == TRUE

\* Mutant: a compare-and-swap that fails although the word holds `expected`.
CasFailsSpuriously(current, expected) == FALSE

\* compare_exchange_strong(expected, desired) succeeds iff the word holds `expected`.
CasSucceeds(current, expected) == current = expected

\* Mutant: the desired value of the compare-and-swap lacks the new bit.
CasDesiredUnchanged(v, off) == v

\* What a successful compare_exchange_strong stores: value | (kBit1 << offset).
CasDesired(v, off) == OrBit(v, off)

\* A thread calls Allocate().
AllocateCall(t) ==
    /\ Running /\ pc[t] = "idle"
    /\ pc' = [pc EXCEPT ![t] = "A_load"]
    /\ word' = [word EXCEPT ![t] = 0]
    /\ UNCHANGED <<poolvars, offset, value, element, ret, completed, visited, ghostvars>>

\* Mutant: the inner loop of Allocate starts one bit too far.
offsetInitOne == 0 + 1

\* The inner loop of Allocate starts at offset 0.
offsetInit == 0

\* Outer loop head: load the word, or leave the loop and return nullptr.
AllocateLoad(t) ==
    /\ Running /\ pc[t] = "A_load"
    /\ IF HasWord(word[t])
       THEN /\ value' = [value EXCEPT ![t] = mUsage[word[t]]]
            /\ offset' = [offset EXCEPT ![t] = offsetInit]
            /\ pc' = [pc EXCEPT ![t] = "A_test"]
            /\ UNCHANGED <<word, ret>>
       ELSE /\ ret' = [ret EXCEPT ![t] = nullptr]
            /\ pc' = [pc EXCEPT ![t] = "A_done"]
            /\ word' = [word EXCEPT ![t] = 0]
            /\ UNCHANGED <<value, offset>>
    /\ UNCHANGED <<poolvars, element, completed, visited, ghostvars>>

\* Inner loop head and the test of the bit in the local copy `value`.
AllocateTest(t) ==
    /\ Running /\ pc[t] = "A_test"
    /\ IF InCapacity(word[t], offset[t])
       THEN IF ~BitSet(value[t], offset[t])
            THEN /\ pc' = [pc EXCEPT ![t] = "A_cas"]
                 /\ UNCHANGED <<word, offset, value>>
            ELSE /\ offset' = [offset EXCEPT ![t] = offset[t] + 1]
                 /\ UNCHANGED <<pc, word, value>>
       ELSE /\ word' = [word EXCEPT ![t] = word[t] + 1]
            /\ offset' = [offset EXCEPT ![t] = 0]
            /\ value' = [value EXCEPT ![t] = 0]
            /\ pc' = [pc EXCEPT ![t] = "A_load"]
    /\ UNCHANGED <<poolvars, element, ret, completed, visited, ghostvars>>

\* usage.compare_exchange_strong(value, value | (kBit1 << offset)).
AllocateCas(t) ==
    /\ Running /\ pc[t] = "A_cas"
    /\ IF CasSucceeds(mUsage[word[t]], value[t])
       THEN /\ mUsage' = [mUsage EXCEPT ![word[t]] = CasDesired(value[t], offset[t])]
            /\ pc' = [pc EXCEPT ![t] = "A_inc"]
            /\ UNCHANGED value
       ELSE /\ value' = [value EXCEPT ![t] = mUsage[word[t]]]
            /\ pc' = [pc EXCEPT ![t] = "A_reload"]
            /\ UNCHANGED mUsage
    /\ UNCHANGED <<constructed, mCapacity, mElementSize, liveCount, died,
                   word, offset, element, ret, completed, visited, ghostvars>>

\* Mutant: after a lost race the scan of the word restarts at bit 0.
OffsetRestart(off) == 0

\* After a lost race the inner loop goes on with ++offset.
OffsetAfterLostRace(off) == off + 1

\* After a lost race: value = usage.load(), then ++offset.
AllocateReload(t) ==
    /\ Running /\ pc[t] = "A_reload"
    /\ value' = [value EXCEPT ![t] = mUsage[word[t]]]
    /\ offset' = [offset EXCEPT ![t] = OffsetAfterLostRace(offset[t])]
    /\ pc' = [pc EXCEPT ![t] = "A_test"]
    /\ UNCHANGED <<poolvars, word, element, ret, completed, visited, ghostvars>>

\* IncreaseUsage(): the counter it stores when it has read n.  The counter
\* is unsigned; its width is scaled down to UsageBits.
IncreaseUsage(n) == (n + 1) % Pow2(UsageBits)

\* IncreaseUsage(), having read `seen` from the counter; then
\* return At(word * kBitChunkSize + offset).
AllocateReturnFrom(t, seen) ==
    /\ Running /\ pc[t] = "A_inc"
    /\ liveCount' = IncreaseUsage(seen)
    /\ ret' = [ret EXCEPT ![t] = At(word[t] * kBitChunkSize + offset[t])]
    /\ held' = [held EXCEPT ![t] = held[t] \cup {ret'[t]}]
    /\ pc' = [pc EXCEPT ![t] = "A_done"]
    /\ word' = [word EXCEPT ![t] = 0]
    /\ offset' = [offset EXCEPT ![t] = 0]
    /\ value' = [value EXCEPT ![t] = 0]
    /\ UNCHANGED <<constructed, mCapacity, mElementSize, mUsage, died,
                   element, completed, visited, misuse>>

\* The same where no other thread's counter update falls between the read
\* and the write of IncreaseUsage.
AllocateReturn(t) == AllocateReturnFrom(t, liveCount)

\* ---------------------------------------------------------- Deallocate

\* Mutant: IndexOf without the alignment check.
IndexOfOkNoAlignment(e) ==
    /\ e - mElements >= 0
    /\ (e - mElements) \div mElementSize < mCapacity

\* The three VerifyOrDie checks of IndexOf.
IndexOfOk(e) ==
    /\ e - mElements >= 0
    /\ (e - mElements) % mElementSize = 0
    /\ (e - mElements) \div mElementSize < mCapacity

\* Mutant: IndexOf without the division by the element size.
IndexOfNoDivision(e) == e - mElements

\* The index IndexOf returns.
IndexOf(e) == (e - mElements) \div mElementSize

\* Mutant: Deallocate without the check that the bit was set.
WasSetUnchecked(v, off) == TRUE

\* The second VerifyOrDie of Deallocate: the bit was set before fetch_and.
WasSet(v, off) == BitSet(v, off)

\* Mutant: fetch_and with the mask not complemented.
FetchAndNoComplement(v, off) == IF BitSet(v, off) THEN Shl(off) ELSE 0

\* Mutant: fetch_and with a mask that clears nothing.
FetchAndNothing(v, off) == v

\* What fetch_and(~(kBit1 << offset)) leaves in the word.
FetchAnd(v, off) == AndNotBit(v, off)

\* A thread calls Deallocate(e): IndexOf, word, offset, VerifyOrDie(index < mCapacity).
DeallocateCall(t, e) ==
    /\ Running /\ pc[t] = "idle"
    /\ element' = [element EXCEPT ![t] = e]
    /\ held' = [held EXCEPT ![t] = held[t] \ {e}]
    /\ misuse' = (misuse \/ e \notin held[t])
    /\ IF IndexOfOk(e) /\ IndexOf(e) < mCapacity
       THEN /\ word' = [word EXCEPT ![t] = IndexOf(e) \div kBitChunkSize]
            /\ offset' = [offset EXCEPT ![t] =
                             IndexOf(e) - (IndexOf(e) \div kBitChunkSize) * kBitChunkSize]
            /\ pc' = [pc EXCEPT ![t] = "D_fetch"]
            /\ UNCHANGED died
       ELSE /\ died' = TRUE
            /\ pc' = [pc EXCEPT ![t] = "fatal"]
            /\ UNCHANGED <<word, offset>>
    /\ UNCHANGED <<constructed, mCapacity, mElementSize, mUsage, liveCount,
                   value, ret, completed, visited>>

\* auto value = mUsage[word].fetch_and(~(kBit1 << offset)).
DeallocateFetchAnd(t) ==
    /\ Running /\ pc[t] = "D_fetch"
    /\ value' = [value EXCEPT ![t] = mUsage[word[t]]]
    /\ mUsage' = [mUsage EXCEPT ![word[t]] = FetchAnd(mUsage[word[t]], offset[t])]
    /\ pc' = [pc EXCEPT ![t] = "D_verify"]
    /\ UNCHANGED <<constructed, mCapacity, mElementSize, liveCount, died,
                   word, offset, element, ret, completed, visited, ghostvars>>

\* DecreaseUsage(): the counter it stores when it has read n.
DecreaseUsage(n) == (n - 1) % Pow2(UsageBits)

\* VerifyOrDie((value & (kBit1 << offset)) != 0); DecreaseUsage(), having
\* read `seen` from the counter.
DeallocateVerifyFrom(t, seen) ==
    /\ Running /\ pc[t] = "D_verify"
    /\ IF WasSet(value[t], offset[t])
       THEN /\ liveCount' = DecreaseUsage(seen)
            /\ pc' = [pc EXCEPT ![t] = "D_done"]
            /\ UNCHANGED died
       ELSE /\ died' = TRUE
            /\ pc' = [pc EXCEPT ![t] = "fatal"]
            /\ UNCHANGED liveCount
    /\ word' = [word EXCEPT ![t] = 0]
    /\ offset' = [offset EXCEPT ![t] = 0]
    /\ value' = [value EXCEPT ![t] = 0]
    /\ UNCHANGED <<constructed, mCapacity, mElementSize, mUsage,
                   element, ret, completed, visited, ghostvars>>

\* The same where no other thread's counter update falls between the read
\* and the write of DecreaseUsage.
DeallocateVerify(t) == DeallocateVerifyFrom(t, liveCount)

\* ------------------------------------------- ForEachActiveObjectInner

\* A thread calls ForEachActiveObjectInner(context, lambda).
EnumerateCall(t) ==
    /\ Running /\ pc[t] = "idle"
    /\ pc' = [pc EXCEPT ![t] = "E_load"]
    /\ word' = [word EXCEPT ![t] = 0]
    /\ UNCHANGED <<poolvars, offset, value, element, ret, completed, visited, ghostvars>>

\* Mutant: the walk empties the word it reads (an exchange for the load).
LoadClears(v) == 0

\* What usage.load() leaves in the word: the word as it was.
LoadLeaves(v) == v

\* Outer loop head: load the word, or leave the loop and return true.
EnumerateLoad(t) ==
    /\ Running /\ pc[t] = "E_load"
    /\ IF HasWord(word[t])
       THEN /\ value' = [value EXCEPT ![t] = mUsage[word[t]]]
            /\ mUsage' = [mUsage EXCEPT ![word[t]] = LoadLeaves(mUsage[word[t]])]
            /\ offset' = [offset EXCEPT ![t] = 0]
            /\ pc' = [pc EXCEPT ![t] = "E_test"]
            /\ UNCHANGED <<word, completed>>
       ELSE /\ completed' = [completed EXCEPT ![t] = TRUE]
            /\ pc' = [pc EXCEPT ![t] = "E_done"]
            /\ word' = [word EXCEPT ![t] = 0]
            /\ UNCHANGED <<value, offset, mUsage>>
    /\ UNCHANGED <<constructed, mCapacity, mElementSize, liveCount, died,
                   element, ret, visited, ghostvars>>

\* Mutant: the walk tests the word as it is now, not its local copy.
SnapshotReloaded(t) == mUsage[word[t]]

\* The word the walk tests: `value`, loaded once at the head of the outer loop.
Snapshot(t) == value[t]

\* Mutant: the enumeration's bit test inverted.
IsActiveInverted(v, off) == ~BitSet(v, off)

\* The bit test of the enumeration: (value & (kBit1 << offset)) != 0.
IsActive(v, off) == BitSet(v, off)

\* Mutant: the answer of the lambda is ignored.
StopsNever(b) == FALSE

\* if (!lambda(context, At(...))) return false: the walk stops on the answer false.
StopsOn(b) == ~b

\* Inner loop head, the bit test and the call of the lambda, which answers `b`.
EnumerateTest(t, b) ==
    /\ Running /\ pc[t] = "E_test"
    /\ IF InCapacity(word[t], offset[t])
       THEN IF IsActive(Snapshot(t), offset[t])
            THEN /\ visited' = [visited EXCEPT ![t] =
                        Append(visited[t], <<At(word[t] * kBitChunkSize + offset[t]), b>>)]
                 /\ IF ~StopsOn(b)
                    THEN /\ offset' = [offset EXCEPT ![t] = offset[t] + 1]
                         /\ UNCHANGED <<pc, word, value, completed>>
                    ELSE /\ completed' = [completed EXCEPT ![t] = FALSE]
                         /\ pc' = [pc EXCEPT ![t] = "E_done"]
                         /\ word' = [word EXCEPT ![t] = 0]
                         /\ offset' = [offset EXCEPT ![t] = 0]
                         /\ value' = [value EXCEPT ![t] = 0]
            ELSE /\ b
                 /\ offset' = [offset EXCEPT ![t] = offset[t] + 1]
                 /\ UNCHANGED <<pc, word, value, completed, visited>>
       ELSE /\ b
            /\ word' = [word EXCEPT ![t] = word[t] + 1]
            /\ offset' = [offset EXCEPT ![t] = 0]
            /\ value' = [value EXCEPT ![t] = 0]
            /\ pc' = [pc EXCEPT ![t] = "E_load"]
            /\ UNCHANGED <<completed, visited>>
    /\ UNCHANGED <<poolvars, element, ret, ghostvars>>

\* ------------------------------------------------------------ callers

DonePcs == {"A_done", "D_done", "E_done"}

\* The caller takes the result of its call and is ready for the next call.
Finish(t) ==
    /\ Running /\ pc[t] \in DonePcs
    /\ pc' = [pc EXCEPT ![t] = "idle"]
    /\ element' = [element EXCEPT ![t] = nullptr]
    /\ ret' = [ret EXCEPT ![t] = nullptr]
    /\ completed' = [completed EXCEPT ![t] = FALSE]
    /\ visited' = [visited EXCEPT ![t] = <<>>]
    /\ UNCHANGED <<poolvars, word, offset, value, ghostvars>>

\* One step of thread t other than a call of Deallocate.
Work(t) ==
    \/ AllocateCall(t)
    \/ AllocateLoad(t)
    \/ AllocateTest(t)
    \/ AllocateCas(t)
    \/ AllocateReload(t)
    \/ AllocateReturn(t)
    \/ DeallocateFetchAnd(t)
    \/ DeallocateVerify(t)
    \/ EnumerateCall(t)
    \/ EnumerateLoad(t)
    \/ \E b \in BOOLEAN : EnumerateTest(t, b)
    \/ Finish(t)

\* One step of a thread that keeps the contract of Deallocate: it frees only
\* addresses it got from Allocate and has not freed since.
Step(t) ==
    \/ Work(t)
    \/ \E e \in held[t] : DeallocateCall(t, e)

\* One step of a thread that passes any address to Deallocate.
AnyStep(t) ==
    \/ Work(t)
    \/ \E e \in ElementInputs : DeallocateCall(t, e)

\* Threads calling into one pool concurrently, each keeping the contract.
Next ==
    \/ Construct /\ UNCHANGED logvars
    \/ \E t \in Threads : Step(t) /\ UNCHANGED logvars

Spec == Init /\ [][Next]_vars

\* ---------------------------------------------------- sequential runs

\* The record of the call thread t completes in this step.
LogEntry(t) ==
    [op |-> pc'[t], arg |-> element'[t], ret |-> ret'[t],
     completed |-> completed'[t], visited |-> visited'[t],
     before |-> pre', after |-> OccupiedSlots', live |-> liveCount']

\* One thread issues its calls one after the other; every completed call is logged.
SeqStep(t) ==
    /\ pc[t] = "idle" => Len(seqlog) < MaxOps
    /\ AnyStep(t)
    /\ pre' = IF pc[t] = "idle" THEN OccupiedSlots ELSE pre
    /\ seqlog' = IF pc'[t] \in DonePcs \cup {"fatal"} /\ pc[t] \notin DonePcs
                 THEN Append(seqlog, LogEntry(t))
                 ELSE seqlog
    /\ UNCHANGED <<racevars, watchvars, lambdavars, countervars, mdnsvars>>

SeqNext ==
    \/ Construct /\ UNCHANGED logvars
    \/ SeqStep(1)

SeqSpec == Init /\ [][SeqNext]_vars

\* --------------------------------------------------- Allocate-only runs

\* The positions of an Allocate call before its compare-and-swap has succeeded.
ScanningPcs == {"A_load", "A_test", "A_cas", "A_reload"}

\* One step of an Allocate call of thread t.
AllocateStep(t) ==
    \/ AllocateCall(t)
    \/ AllocateLoad(t)
    \/ AllocateTest(t)
    \/ AllocateCas(t)
    \/ AllocateReload(t)
    \/ AllocateReturn(t)

\* The number of calls made so far: the logged ones and those in progress.
CallsStarted == Len(seqlog) + Cardinality({t \in Threads : pc[t] \in ScanningPcs \cup {"A_inc"}})

\* Threads that call nothing but Allocate; every returning call is logged
\* in the order of the returns.
AllocOnlyStep(t) ==
    /\ pc[t] = "idle" => CallsStarted < MaxOps
    /\ AllocateStep(t) \/ Finish(t)
    /\ UNCHANGED <<pre, racevars, watchvars, lambdavars, countervars, mdnsvars>>
    /\ seqlog' = IF pc'[t] = "A_done" /\ pc[t] # "A_done"
                 THEN Append(seqlog, LogEntry(t))
                 ELSE seqlog

AllocOnlyNext ==
    \/ Construct /\ UNCHANGED logvars
    \/ \E t \in Threads : AllocOnlyStep(t)

AllocOnlySpec == Init /\ [][AllocOnlyNext]_vars

\* -------------------------------------------------------- misuse runs

\* Threads that allocate and free, and may pass to Deallocate the address of
\* any slot, held by the caller or not.  For each thread inside or just
\* after a Deallocate it is recorded whether a compare-and-swap has claimed
\* the slot of that call again since the call's fetch_and.
MisuseStep(t) ==
    /\ \/ AllocateStep(t)
       \/ \E e \in SlotAddresses : DeallocateCall(t, e)
       \/ DeallocateFetchAnd(t)
       \/ DeallocateVerify(t)
       \/ Finish(t)
    /\ UNCHANGED <<pre, seqlog, racevars, stayedSet, stayedFree, lambdavars, countervars, mdnsvars>>
    /\ reclaimed' = [u \in Threads |->
                        IF u = t
                        THEN (IF pc[t] = "idle" \/ pc'[t] = "idle" THEN FALSE
                              ELSE reclaimed[t])
                        ELSE reclaimed[u]
                             \/ (/\ pc[u] \in {"D_verify", "D_done"}
                                 /\ pc[t] = "A_cas" /\ pc'[t] = "A_inc"
                                 /\ IndexOf(element[u]) = word[t] * kBitChunkSize + offset[t])]

MisuseNext ==
    \/ Construct /\ UNCHANGED logvars
    \/ \E t \in Threads : MisuseStep(t)

MisuseSpec == Init /\ [][MisuseNext]_vars

\* --------------------------------------------------- enumeration runs

\* The positions of a ForEachActiveObjectInner call that is still walking.
WalkingPcs == {"E_load", "E_test"}

\* Positions inside the Deallocate call a walk's lambda makes.
LambdaPcs == {"L_fetch", "L_verify"}

\* The walk of thread t finds the bit of its position set in its copy of the
\* word and calls the lambda, which calls Deallocate(e) on an address its
\* thread holds: IndexOf and VerifyOrDie(index < mCapacity) of that call.
EnumerateTestFreeing(t, e) ==
    /\ Running /\ pc[t] = "E_test"
    /\ InCapacity(word[t], offset[t])
    /\ IsActive(Snapshot(t), offset[t])
    /\ visited' = [visited EXCEPT ![t] =
            Append(visited[t], <<At(word[t] * kBitChunkSize + offset[t]), TRUE>>)]
    /\ held' = [held EXCEPT ![t] = held[t] \ {e}]
    /\ IF IndexOfOk(e) /\ IndexOf(e) < mCapacity
       THEN /\ lambdaElement' = [lambdaElement EXCEPT ![t] = e]
            /\ pc' = [pc EXCEPT ![t] = "L_fetch"]
            /\ UNCHANGED died
       ELSE /\ died' = TRUE
            /\ pc' = [pc EXCEPT ![t] = "fatal"]
            /\ UNCHANGED lambdaElement
    /\ UNCHANGED <<constructed, mCapacity, mElementSize, mUsage, liveCount,
                   word, offset, value, element, ret, completed, misuse, lambdaValue>>

\* Word and offset of the Deallocate the lambda of thread t runs.
LambdaWord(t) == IndexOf(lambdaElement[t]) \div kBitChunkSize
LambdaOffset(t) ==
    IndexOf(lambdaElement[t]) - (IndexOf(lambdaElement[t]) \div kBitChunkSize) * kBitChunkSize

\* The fetch_and of the Deallocate the lambda runs.
LambdaFetchAnd(t) ==
    /\ Running /\ pc[t] = "L_fetch"
    /\ lambdaValue' = [lambdaValue EXCEPT ![t] = mUsage[LambdaWord(t)]]
    /\ mUsage' = [mUsage EXCEPT ![LambdaWord(t)] =
                        FetchAnd(mUsage[LambdaWord(t)], LambdaOffset(t))]
    /\ pc' = [pc EXCEPT ![t] = "L_verify"]
    /\ UNCHANGED <<constructed, mCapacity, mElementSize, liveCount, died,
                   word, offset, value, element, ret, completed, visited,
                   ghostvars, lambdaElement>>

\* VerifyOrDie and DecreaseUsage of the Deallocate the lambda runs; the
\* lambda then answers true and the walk moves to its next position.
LambdaVerify(t) ==
    /\ Running /\ pc[t] = "L_verify"
    /\ IF WasSet(lambdaValue[t], LambdaOffset(t))
       THEN /\ liveCount' = DecreaseUsage(liveCount)
            /\ pc' = [pc EXCEPT ![t] = "E_test"]
            /\ offset' = [offset EXCEPT ![t] = offset[t] + 1]
            /\ UNCHANGED died
       ELSE /\ died' = TRUE
            /\ pc' = [pc EXCEPT ![t] = "fatal"]
            /\ UNCHANGED <<liveCount, offset>>
    /\ lambdaElement' = [lambdaElement EXCEPT ![t] = nullptr]
    /\ lambdaValue' = [lambdaValue EXCEPT ![t] = 0]
    /\ UNCHANGED <<constructed, mCapacity, mElementSize, mUsage,
                   word, value, element, ret, completed, visited, ghostvars>>

\* The concurrent program of Spec, where moreover the lambda of a walk may
\* free what its thread holds.
ReentrantStep(t) ==
    \/ Step(t) /\ UNCHANGED lambdavars
    \/ \E e \in held[t] : EnumerateTestFreeing(t, e)
    \/ LambdaFetchAnd(t)
    \/ LambdaVerify(t)

ReentrantNext ==
    \/ Construct /\ UNCHANGED logvars
    \/ \E t \in Threads :
          ReentrantStep(t) /\ UNCHANGED <<pre, seqlog, racevars, watchvars, countervars, mdnsvars>>

ReentrantSpec == Init /\ [][ReentrantNext]_vars

\* ----------------------------------------------------- counter runs

\* Where a thread stands between the bitmap update of its call and the
\* counter update that follows it.
UpdatingPcs == {"A_inc", "D_verify"}

\* A counter update of thread t computed from `seen`, one of the values the
\* counter has held since t came to the update: the value it holds now, or
\* an earlier one that another thread's update has replaced since.
ReadsCounter(t, seen) ==
    /\ seen \in usageSeen[t]
    /\ seen # liveCount => lostUpdates < MaxLostUpdates
    /\ lostUpdates' = IF seen # liveCount THEN lostUpdates + 1 ELSE lostUpdates

\* Threads that call Allocate and Deallocate, keeping the contract of
\* Deallocate, where the read and the write of IncreaseUsage and
\* DecreaseUsage are separate accesses to the counter, so that the updates
\* of two threads may overlap.  (ForEachActiveObjectInner has no access to
\* the counter and is left out.)
CounterStep(t) ==
    /\ \/ /\ \/ AllocateCall(t)
             \/ AllocateLoad(t)
             \/ AllocateTest(t)
             \/ AllocateCas(t)
             \/ AllocateReload(t)
             \/ \E e \in held[t] : DeallocateCall(t, e)
             \/ DeallocateFetchAnd(t)
             \/ Finish(t)
          /\ UNCHANGED lostUpdates
       \/ \E seen \in usageSeen[t] : AllocateReturnFrom(t, seen) /\ ReadsCounter(t, seen)
       \/ \E seen \in usageSeen[t] : DeallocateVerifyFrom(t, seen) /\ ReadsCounter(t, seen)
    /\ usageSeen' = [u \in Threads |->
                        IF pc'[u] \notin UpdatingPcs THEN {}
                        ELSE IF lostUpdates' = MaxLostUpdates THEN {liveCount'}
                        ELSE IF pc[u] \in UpdatingPcs THEN usageSeen[u] \cup {liveCount'}
                        ELSE {liveCount'}]
    /\ UNCHANGED <<pre, seqlog, racevars, watchvars, lambdavars, mdnsvars>>

CounterNext ==
    \/ Construct /\ UNCHANGED logvars
    \/ \E t \in Threads : CounterStep(t)

CounterSpec == Init /\ [][CounterNext]_vars

\* The concurrent program of Spec, with a record for each thread of the
\* slots that stayed occupied, and of those that stayed free, from the call
\* of its current ForEachActiveObjectInner on.
WatchStep(t) ==
    /\ Step(t)
    /\ UNCHANGED <<pre, seqlog, racevars, reclaimed, lambdavars, countervars, mdnsvars>>
    /\ stayedSet' = [u \in Threads |->
                        IF u = t /\ pc[t] = "idle"
                        THEN (IF pc'[t] = "E_load" THEN OccupiedSlots' ELSE {})
                        ELSE IF u = t /\ pc'[t] = "idle" THEN {}
                        ELSE IF pc[u] \in WalkingPcs THEN stayedSet[u] \cap OccupiedSlots'
                        ELSE stayedSet[u]]
    /\ stayedFree' = [u \in Threads |->
                        IF u = t /\ pc[t] = "idle"
                        THEN (IF pc'[t] = "E_load" THEN Slots \ OccupiedSlots' ELSE {})
                        ELSE IF u = t /\ pc'[t] = "idle" THEN {}
                        ELSE IF pc[u] \in WalkingPcs THEN stayedFree[u] \ OccupiedSlots'
                        ELSE stayedFree[u]]

WatchNext ==
    \/ Construct /\ UNCHANGED logvars
    \/ \E t \in Threads : WatchStep(t)

WatchSpec == Init /\ [][WatchNext]_vars

\* ------------------------------------------------------ observed runs

\* The concurrent program of Spec, with a record for each thread of what
\* happened around its current Allocate call.
RaceStep(t) ==
    /\ Step(t)
    /\ UNCHANGED <<pre, seqlog, watchvars, lambdavars, countervars, mdnsvars>>
    /\ casCount' = [casCount EXCEPT ![t] =
                        IF pc[t] = "A_cas" THEN casCount[t] + 1
                        ELSE IF pc'[t] = "idle" THEN 0
                        ELSE casCount[t]]
    /\ interfered' = [u \in Threads |->
                        IF u = t
                        THEN (IF pc'[t] = "idle" THEN FALSE ELSE interfered[t])
                        ELSE interfered[u] \/ (pc[u] \in ScanningPcs /\ mUsage' # mUsage)]
    /\ freeAllAlong' = [u \in Threads |->
                        IF u = t /\ pc[t] = "idle"
                        THEN pc'[t] = "A_load" /\ OccupiedSlots' # Slots
                        ELSE IF u = t /\ pc'[t] = "idle" THEN FALSE
                        ELSE IF pc[u] \in ScanningPcs
                        THEN freeAllAlong[u] /\ OccupiedSlots' # Slots
                        ELSE freeAllAlong[u]]
    /\ lowerFree' = [lowerFree EXCEPT ![t] =
                        IF pc[t] = "A_cas" /\ pc'[t] = "A_inc"
                        THEN \E i \in Slots :
                                /\ i < word[t] * kBitChunkSize + offset[t]
                                /\ ~Occupied(i)
                        ELSE IF pc'[t] = "idle" THEN FALSE
                        ELSE lowerFree[t]]

RaceNext ==
    \/ Construct /\ UNCHANGED logvars
    \/ \E t \in Threads : RaceStep(t)

RaceSpec == Init /\ [][RaceNext]_vars

\* ------------------------------------------------------- claim helpers

\* Every address some caller holds.
AllHeld == UNION {held[t] : t \in Threads}

\* No call is in progress.
Quiescent == \A t \in Threads : pc[t] \in DonePcs \cup {"idle"}

\* The slot a thread has claimed by its compare-and-swap and is about to return.
ClaimedSlot(t) == word[t] * kBitChunkSize + offset[t]

\* An address is storage + i * elementSize for a slot index i below the capacity.
IsSlotAddress(a) == \E i \in 0 .. (mCapacity - 1) : a = mElements + i * mElementSize

\* The addresses of the slots of S in increasing index order.
RECURSIVE AscendingAddresses(_)
AscendingAddresses(S) ==
    IF S = {}
    THEN <<>>
    ELSE LET m == CHOOSE x \in S : \A y \in S : x <= y
         IN  <<mElements + m * mElementSize>> \o AscendingAddresses(S \ {m})

\* The logged calls of each kind.
IsAllocate(r) == r.op = "A_done"
IsDeallocate(r) == r.op \in {"D_done", "fatal"}
IsEnumerate(r) == r.op = "E_done"
LogIndex == 1 .. Len(seqlog)

\* ------------------------------------------------------------------ C1

\* C1: under every interleaving of Allocate and Deallocate calls by several
\* threads, each Deallocate being called on an address its caller holds, no
\* slot is held by two callers at once: two threads never hold the same
\* address, and a slot a thread has just claimed and is about to return is
\* held by nobody and claimed by no other thread.
C1_NoAliasing ==
    /\ \A t, u \in Threads : t # u => held[t] \cap held[u] = {}
    /\ \A t \in Threads :
          pc[t] = "A_inc" =>
             /\ (mElements + ClaimedSlot(t) * mElementSize) \notin AllHeld
             /\ \A u \in Threads \ {t} :
                   pc[u] = "A_inc" => ClaimedSlot(u) # ClaimedSlot(t)

\* Two threads raced for the same bit: one won and is about to return the
\* slot, the other lost its compare-and-swap, while a slot is already held.
C1_Witness ==
    \E t, u \in Threads :
        /\ t # u
        /\ pc[t] = "A_inc" /\ pc[u] = "A_reload"
        /\ ClaimedSlot(t) = ClaimedSlot(u)
        /\ AllHeld # {}

\* ------------------------------------------------------------------ C2

\* The results of the logged Allocate calls, oldest first.
AllocateResults ==
    LET allocs == SelectSeq(seqlog, IsAllocate)
    IN  [k \in 1 .. Len(allocs) |-> allocs[k].ret]

NoDeallocateLogged == \A k \in LogIndex : ~IsDeallocate(seqlog[k])

\* C2: on a pool of capacity N on which Deallocate is never called, the
\* first N sequential Allocate calls return pairwise distinct addresses of
\* the form storage + i * elementSize with 0 <= i < N, and every later
\* Allocate, the (N+1)-th in particular, returns null.
C2_CapacityBound ==
    NoDeallocateLogged =>
        \A k \in 1 .. Len(AllocateResults) :
            IF k <= mCapacity
            THEN /\ IsSlotAddress(AllocateResults[k])
                 /\ \A j \in 1 .. (k - 1) : AllocateResults[j] # AllocateResults[k]
            ELSE AllocateResults[k] = nullptr

\* N + 1 Allocate calls were made on a pool of several words whose last word
\* is cut by the capacity.
C2_Witness ==
    /\ NoDeallocateLogged
    /\ mCapacity > kBitChunkSize
    /\ mCapacity % kBitChunkSize # 0
    /\ Len(AllocateResults) = mCapacity + 1

\* ------------------------------------------------------------------ C3

\* C3: whenever no call is in progress, after any interleaving of valid
\* Allocate and Deallocate calls, bit i of the bitmap is set if and only if
\* the address of slot i is held, that is, was returned by an Allocate and
\* has not been passed to Deallocate since.
C3_BitIffHeld ==
    (constructed /\ Quiescent) =>
        \A i \in Slots :
            Occupied(i) <=> (mElements + i * mElementSize) \in AllHeld

\* One thread has just allocated and the other has just freed a slot of the
\* same word, while a further slot of that word stays held.
C3_Witness ==
    /\ Quiescent
    /\ \E t, u \in Threads :
          /\ pc[t] = "A_done" /\ ret[t] # nullptr
          /\ pc[u] = "D_done"
          /\ IndexOf(ret[t]) \div kBitChunkSize = IndexOf(element[u]) \div kBitChunkSize
          /\ ret[t] # element[u]

\* ------------------------------------------------------------------ C4

\* C4: Deallocate of an address whose slot is free (a double free) is fatal:
\* the call does not return, and no call is made after it.
C4_DoubleFreeFatal ==
    \A k \in LogIndex :
        /\ (/\ IsDeallocate(seqlog[k])
            /\ IsSlotAddress(seqlog[k].arg)
            /\ \E i \in Slots \ seqlog[k].before :
                  seqlog[k].arg = mElements + i * mElementSize)
           => (seqlog[k].op = "fatal" /\ died)
        /\ seqlog[k].op = "fatal" => k = Len(seqlog)

\* Capacity 1: Allocate once, then Deallocate the address twice.
C4_Witness ==
    /\ mCapacity = 1
    /\ Len(seqlog) = 3
    /\ seqlog[1].op = "A_done" /\ seqlog[1].ret # nullptr
    /\ seqlog[2].op = "D_done" /\ seqlog[2].arg = seqlog[1].ret
    /\ seqlog[3].op = "fatal" /\ seqlog[3].arg = seqlog[1].ret

\* ------------------------------------------------------------------ C5

\* An address Deallocate must refuse: below the storage, not a multiple of
\* elementSize from it, or of an index not below the capacity.
IsForeign(a) ==
    \/ a < mElements
    \/ /\ a >= mElements
       /\ \/ (a - mElements) % mElementSize # 0
          \/ (a - mElements) \div mElementSize >= mCapacity

\* C5: Deallocate is fatal for every address below the storage, misaligned
\* or out of range, whatever the bitmap holds.
C5_ForeignFatal ==
    \A k \in LogIndex :
        (IsDeallocate(seqlog[k]) /\ IsForeign(seqlog[k].arg))
            => (seqlog[k].op = "fatal" /\ died)

\* A misaligned address inside an occupied slot was passed to Deallocate.
C5_Witness ==
    \E k \in LogIndex :
        /\ seqlog[k].op = "fatal"
        /\ seqlog[k].arg > mElements
        /\ (seqlog[k].arg - mElements) % mElementSize # 0
        /\ ((seqlog[k].arg - mElements) \div mElementSize) \in seqlog[k].before

\* ------------------------------------------------------------------ C6

\* C6: under any interleaving, every non-null result of Allocate, and so
\* every held address, is storage + i * elementSize for an index i below
\* the capacity.
C6_ResultInStorage ==
    /\ \A t \in Threads :
          (pc[t] = "A_done" /\ ret[t] # nullptr) => IsSlotAddress(ret[t])
    /\ \A a \in AllHeld : IsSlotAddress(a)

\* Allocate returned the last slot of a pool of several words whose last
\* word is cut by the capacity, while another thread was inside a call.
C6_Witness ==
    \E t, u \in Threads :
        /\ t # u
        /\ mCapacity > kBitChunkSize
        /\ mCapacity % kBitChunkSize # 0
        /\ pc[t] = "A_done"
        /\ ret[t] = mElements + (mCapacity - 1) * mElementSize
        /\ pc[u] \notin DonePcs \cup {"idle"}

\* ------------------------------------------------------------------ C7

\* The positions (word, offset) of the set bits of the bitmap.
SetBits ==
    {p \in (DOMAIN mUsage) \X (0 .. (kBitChunkSize - 1)) : BitSet(mUsage[p[1]], p[2])}

\* C7: once constructed, the bitmap never holds more set bits than the
\* capacity, and no bit of global index >= capacity is set.
C7_BitsWithinCapacity ==
    constructed =>
        /\ Cardinality(SetBits) <= mCapacity
        /\ \A p \in SetBits : p[1] * kBitChunkSize + p[2] < mCapacity

\* Every slot of a pool whose last word has an unused tail is occupied and
\* a thread has scanned past the last word.
C7_Witness ==
    /\ constructed
    /\ mCapacity % kBitChunkSize # 0
    /\ Cardinality(SetBits) = mCapacity
    /\ \E t \in Threads : pc[t] = "A_load" /\ ~HasWord(word[t])

\* ------------------------------------------------------------------ C8

\* C8: without concurrency Allocate returns null if and only if every slot
\* is occupied, and otherwise returns the free slot of lowest index.
C8_LowestFreeSlot ==
    \A k \in LogIndex :
        IsAllocate(seqlog[k]) =>
            LET free == Slots \ seqlog[k].before
            IN  /\ (seqlog[k].ret = nullptr) <=> (free = {})
                /\ free # {} =>
                      \E i \in free :
                          /\ \A j \in free : i <= j
                          /\ seqlog[k].ret = mElements + i * mElementSize
                          /\ seqlog[k].after = seqlog[k].before \cup {i}

\* Capacity 4, all four slots allocated, slot 1 freed, then Allocate
\* returns slot 1 again.
C8_Witness ==
    /\ mCapacity = 4
    /\ Len(seqlog) = 6
    /\ \A k \in 1 .. 4 : seqlog[k].op = "A_done"
    /\ seqlog[4].after = Slots
    /\ seqlog[5].op = "D_done" /\ seqlog[5].arg = mElements + 1 * mElementSize
    /\ seqlog[6].op = "A_done" /\ seqlog[6].ret = mElements + 1 * mElementSize

\* ------------------------------------------------------------------ C9

\* C9: sequentially, Deallocate(a) on a held address immediately followed
\* by Allocate() returns a non-null slot address, and as many slots are
\* occupied after the pair as before the Deallocate.
C9_RoundTrip ==
    \A k \in LogIndex :
        (/\ k + 1 \in LogIndex
         /\ seqlog[k].op = "D_done"
         /\ seqlog[k + 1].op = "A_done")
        => /\ seqlog[k + 1].ret # nullptr
           /\ IsSlotAddress(seqlog[k + 1].ret)
           /\ Cardinality(seqlog[k + 1].after) = Cardinality(seqlog[k].before)

\* A slot that is not the lowest free one was freed and the following
\* Allocate returned a different address.
C9_Witness ==
    \E k \in LogIndex :
        /\ k + 1 \in LogIndex
        /\ seqlog[k].op = "D_done"
        /\ seqlog[k + 1].op = "A_done"
        /\ seqlog[k + 1].ret # seqlog[k].arg
        /\ seqlog[k + 1].ret # nullptr

\* ----------------------------------------------------------------- C10

\* The lambda answered true every time it was called.
AlwaysTrue(r) == \A n \in 1 .. Len(r.visited) : r.visited[n][2]

\* The addresses passed to the lambda, in call order.
VisitedAddresses(r) == [n \in 1 .. Len(r.visited) |-> r.visited[n][1]]

\* C10: without concurrent mutation and with a predicate that always
\* answers true, Enumerate on a pool with K occupied slots calls the
\* predicate exactly K times, once per occupied slot and for no free slot,
\* in strictly increasing slot order, and returns true.
C10_EnumerateAll ==
    \A k \in LogIndex :
        (IsEnumerate(seqlog[k]) /\ AlwaysTrue(seqlog[k])) =>
            /\ VisitedAddresses(seqlog[k]) = AscendingAddresses(seqlog[k].before)
            /\ Len(seqlog[k].visited) = Cardinality(seqlog[k].before)
            /\ seqlog[k].completed = TRUE

\* Enumerate ran to completion over occupied slots in two words with a free
\* slot between them.
C10_Witness ==
    \E k \in LogIndex :
        /\ IsEnumerate(seqlog[k]) /\ AlwaysTrue(seqlog[k])
        /\ seqlog[k].completed
        /\ \E i, j \in seqlog[k].before :
              /\ i + 1 < j
              /\ i \div kBitChunkSize # j \div kBitChunkSize
              /\ (i + 1) \notin seqlog[k].before

\* ----------------------------------------------------------------- C11

\* The first call of the lambda that answered false, or 0 if none did.
FirstFalse(r) ==
    IF AlwaysTrue(r)
    THEN 0
    ELSE CHOOSE n \in 1 .. Len(r.visited) :
            /\ ~r.visited[n][2]
            /\ \A m \in 1 .. (n - 1) : r.visited[m][2]

\* C11: if the predicate first answers false on the j-th slot it is given,
\* Enumerate has called it exactly j times, on the j occupied slots of
\* lowest index, calls it no more and returns false; Enumerate returns true
\* only if the predicate answered true on every slot it was given.
C11_EnumerateStopsEarly ==
    \A k \in LogIndex :
        IsEnumerate(seqlog[k]) =>
            LET r == seqlog[k]
                j == FirstFalse(r)
            IN  /\ j > 0 =>
                      /\ Len(r.visited) = j
                      /\ j <= Cardinality(r.before)
                      /\ VisitedAddresses(r) = SubSeq(AscendingAddresses(r.before), 1, j)
                      /\ r.completed = FALSE
                /\ r.completed = TRUE => AlwaysTrue(r)

\* The predicate answered true once and then false while a third occupied
\* slot was left unvisited.
C11_Witness ==
    \E k \in LogIndex :
        /\ IsEnumerate(seqlog[k])
        /\ FirstFalse(seqlog[k]) = 2
        /\ Cardinality(seqlog[k].before) >= 3
        /\ ~seqlog[k].completed

\* ----------------------------------------------------------------- C12

\* C12: under concurrency Allocate can return null although a slot is free
\* at every instant of the call; this happens only when another thread
\* changed the bitmap while the call was scanning.
C12_FalseNullOnlyUnderRace ==
    \A t \in Threads :
        (pc[t] = "A_done" /\ ret[t] = nullptr /\ freeAllAlong[t]) => interfered[t]

\* An Allocate call returned null although a slot was free at every instant
\* from its call to its return.
C12_Witness ==
    \E t \in Threads :
        pc[t] = "A_done" /\ ret[t] = nullptr /\ freeAllAlong[t]

\* ----------------------------------------------------------------- C13

\* A call of thread t is in progress.
InCall(t) == pc[t] \notin DonePcs \cup {"idle", "fatal"}

\* Own steps a scan at word w, offset off can still take inside word w and
\* the words after it: at most three per bit position and two per word.
ScanBudget(w, off, rank) ==
    (mCapacity + 1 - w) * (3 * kBitChunkSize + 4) + 3 * (kBitChunkSize - off) + rank

\* An upper bound on the steps thread t itself still takes in its current
\* call, computed from its own position only.
StepsLeft(t) ==
    CASE pc[t] \in {"A_load", "E_load"} -> ScanBudget(word[t], 0, 3)
      [] pc[t] \in {"A_test", "E_test"} -> ScanBudget(word[t], offset[t], 2)
      [] pc[t] = "A_cas"                -> ScanBudget(word[t], offset[t], 1)
      [] pc[t] = "A_reload"             -> ScanBudget(word[t], offset[t], 0)
      [] pc[t] = "D_fetch"              -> 2
      [] pc[t] \in {"A_inc", "D_verify"} -> 1
      [] OTHER                          -> 0

\* Thread t takes a step of its call.
OwnStep(t) ==
    InCall(t) /\ (pc'[t] # pc[t] \/ word'[t] # word[t] \/ offset'[t] # offset[t])

\* C13: no call waits for another thread.  A thread inside a call can
\* always take its next step, whatever the other threads are doing; each of
\* its steps lowers a bound, fixed by its own position, on the steps it has
\* left; and one Allocate call makes at most capacity compare-and-swap
\* attempts.
C13_NeverWaits ==
    /\ [](\A t \in Threads :
            /\ (Running /\ InCall(t)) => ENABLED (Work(t) /\ UNCHANGED logvars)
            /\ casCount[t] <= mCapacity
            /\ StepsLeft(t) >= 0)
    /\ [][\A t \in Threads :
            OwnStep(t) => StepsLeft(t)' < StepsLeft(t)]_vars

\* An Allocate call has returned after losing a compare-and-swap on every
\* slot of the pool, while the other thread stands still inside a call.
C13_Witness ==
    \E t, u \in Threads :
        /\ t # u
        /\ mCapacity >= 2
        /\ pc[t] = "A_done" /\ casCount[t] = mCapacity
        /\ InCall(u)

\* ----------------------------------------------------------------- C14

\* Thread u's step is a bitmap update of word w that took effect: a
\* compare-and-swap that succeeded, or a fetch_and that cleared a set bit.
UpdatedWord(u, w) ==
    /\ word[u] = w
    /\ \/ pc[u] = "A_cas" /\ pc'[u] = "A_inc"
       \/ pc[u] = "D_fetch" /\ pc'[u] = "D_verify" /\ BitSet(mUsage[w], offset[u])
    /\ mUsage'[w] # mUsage[w]

\* C14: Allocate is lock-free.  Every load of a word leaves the call with
\* the word's current value; between that load and the call's
\* compare-and-swap the call keeps its copy, and the word changes only by
\* another thread's successful claim or clear of a bit of that word; and the
\* compare-and-swap fails only if the word differs from the copy.  So a
\* failed compare-and-swap means another operation completed its bitmap
\* update after the call's latest load.
C14_LockFree ==
    [][\A t \in Threads :
        /\ (\/ pc[t] \in {"A_load", "A_reload"} /\ pc'[t] = "A_test"
            \/ pc[t] = "A_cas" /\ pc'[t] = "A_reload")
              => value'[t] = mUsage'[word'[t]]
        /\ (pc[t] \in {"A_test", "A_cas"} /\ pc'[t] \in {"A_test", "A_cas"})
              => /\ value'[t] = value[t] /\ word'[t] = word[t]
                 /\ mUsage'[word[t]] # mUsage[word[t]]
                       => \E u \in Threads \ {t} : UpdatedWord(u, word[t])
        /\ (pc[t] = "A_cas" /\ pc'[t] = "A_reload")
              => mUsage[word[t]] # value[t]
      ]_vars

\* An Allocate call has just lost its compare-and-swap while the thread that
\* cleared another bit of the same word stands right after its fetch_and.
C14_Witness ==
    \E t, u \in Threads :
        /\ t # u
        /\ pc[t] = "A_reload" /\ pc[u] = "D_verify"
        /\ word[u] = word[t] /\ offset[u] # offset[t]
        /\ ~died

\* ----------------------------------------------------------------- C15

\* The usage counter when the k-th logged call began.
LiveBefore(k) == IF k = 1 THEN 0 ELSE seqlog[k - 1].live

\* The k-th logged call is an Allocate that returned null.
IsNullAllocate(k) == IsAllocate(seqlog[k]) /\ seqlog[k].ret = nullptr

\* C15: exhaustion is recoverable and free of side effects.  No step of an
\* Allocate call is fatal; an Allocate that returns null leaves the occupied
\* slots and the usage counter as they were when it was called; and after
\* it, a Deallocate that returns normally followed at once by an Allocate
\* yields a slot.
C15_ExhaustionRecoverable ==
    /\ [](\A k \in LogIndex :
            IsNullAllocate(k)
            => /\ seqlog[k].after = seqlog[k].before
               /\ seqlog[k].live = LiveBefore(k)
               /\ \A j \in LogIndex :
                    (/\ j > k /\ j + 1 \in LogIndex
                     /\ seqlog[j].op = "D_done"
                     /\ IsAllocate(seqlog[j + 1]))
                    => /\ seqlog[j + 1].ret # nullptr
                       /\ IsSlotAddress(seqlog[j + 1].ret))
    /\ [][\A t \in Threads :
            pc[t] \in ScanningPcs \cup {"A_inc"}
            => /\ died' = died
               /\ pc'[t] # "fatal"
               /\ pc'[t] = "A_done" /\ ret'[t] = nullptr
                     => mUsage' = mUsage /\ liveCount' = liveCount]_vars

\* A full pool refused an Allocate, then a held slot was released and the
\* next Allocate returned that slot.
C15_Witness ==
    \E k \in LogIndex :
        /\ k + 2 \in LogIndex
        /\ IsNullAllocate(k)
        /\ seqlog[k].before = Slots
        /\ seqlog[k + 1].op = "D_done"
        /\ IsAllocate(seqlog[k + 2])
        /\ seqlog[k + 2].ret = seqlog[k + 1].arg

\* ----------------------------------------------------------------- C16

\* The calls whose bitmap update has taken effect and whose counter update
\* is still to come.
PendingIncrements == {t \in Threads : pc[t] = "A_inc"}
PendingDecrements == {t \in Threads : pc[t] = "D_verify"}

\* C16, amended: the usage counter is written exactly in the step in which
\* an Allocate returns a slot (IncreaseUsage) and in the step in which a
\* Deallocate returns normally (DecreaseUsage), once each, and no other step
\* changes it.  The value written is one more, or one less, than a value the
\* counter held since the call came to its update; where that is the value
\* the counter holds at the write, the counter goes up or down by one (in
\* the arithmetic of its unsigned type).  As
\* long as every update was of that kind, the counter differs from the
\* number of set bits only by the calls still between their bitmap update
\* and their counter update, and equals it whenever no call is in progress.
C16_LiveCountTracksBits ==
    /\ []((constructed /\ lostUpdates = 0)
            => /\ liveCount = Cardinality(SetBits) - Cardinality(PendingIncrements)
                                                   + Cardinality(PendingDecrements)
               /\ Quiescent => liveCount = Cardinality(SetBits))
    /\ [][LET returned == {t \in Threads : pc[t] # "A_done" /\ pc'[t] = "A_done"
                                           /\ ret'[t] # nullptr}
              released == {t \in Threads : pc[t] # "D_done" /\ pc'[t] = "D_done"}
          IN  /\ Cardinality(returned) + Cardinality(released) <= 1
              /\ (returned = {} /\ released = {}) => liveCount' = liveCount
              /\ \A t \in returned :
                    /\ \E seen \in usageSeen[t] : liveCount' = (seen + 1) % Pow2(UsageBits)
                    /\ lostUpdates' = lostUpdates => liveCount' = (liveCount + 1) % Pow2(UsageBits)
              /\ \A t \in released :
                    /\ \E seen \in usageSeen[t] : liveCount' = (seen - 1) % Pow2(UsageBits)
                    /\ lostUpdates' = lostUpdates => liveCount' = (liveCount - 1) % Pow2(UsageBits)
      ]_vars

\* Between calls, after one thread got a slot and the other gave one back,
\* with slots still occupied and no counter update lost.
C16_Witness ==
    \E t, u \in Threads :
        /\ pc[t] = "A_done" /\ ret[t] # nullptr
        /\ pc[u] = "D_done"
        /\ lostUpdates = 0
        /\ liveCount >= 2
        /\ liveCount = Cardinality(SetBits)

\* C16 as stated: whenever no call is in progress the usage counter equals
\* the number of set bits, also in runs in which the counter updates of two
\* threads overlap.
C16_AsStated == (constructed /\ Quiescent) => liveCount = Cardinality(SetBits)

\* ----------------------------------------------------------------- C17

\* C17: within one Allocate call the scan only moves forward.  While the
\* call scans, its word index never decreases and, within a word, its bit
\* position never decreases; a compare-and-swap is attempted at a position
\* strictly beyond every position attempted before in the call; and after
\* a failed compare-and-swap at position k the call reloads the word and
\* goes on at position k + 1 of the same word.
C17_ScanForward ==
    [][\A t \in Threads :
        /\ (pc[t] \in ScanningPcs /\ pc'[t] \in ScanningPcs)
              => \/ word'[t] > word[t] /\ offset'[t] = 0
                 \/ word'[t] = word[t] /\ offset'[t] >= offset[t]
        /\ (pc[t] = "A_cas" /\ pc'[t] = "A_reload")
              => word'[t] = word[t] /\ offset'[t] = offset[t]
        /\ (pc[t] = "A_reload" /\ pc'[t] # "A_reload")
              => /\ pc'[t] = "A_test"
                 /\ word'[t] = word[t]
                 /\ offset'[t] = offset[t] + 1
                 /\ value'[t] = mUsage[word[t]]
        /\ (pc[t] = "A_load" /\ pc'[t] = "A_test")
              => word'[t] = word[t] /\ offset'[t] = 0
        /\ (pc[t] = "A_test" /\ pc'[t] = "A_load")
              => word'[t] = word[t] + 1
      ]_vars

\* After losing the compare-and-swap on an earlier bit of the word, the call
\* attempts a later bit of the same word while the earlier one is free again.
C17_Witness ==
    \E t \in Threads :
        /\ pc[t] = "A_cas"
        /\ offset[t] > 0
        /\ casCount[t] >= 1
        /\ ~BitSet(mUsage[word[t]], offset[t] - 1)

\* ----------------------------------------------------------------- C18

\* The bitmap position <<word, bit>> of the slot at address a.
PositionOf(a) ==
    <<IndexOf(a) \div kBitChunkSize,
      IndexOf(a) - (IndexOf(a) \div kBitChunkSize) * kBitChunkSize>>

\* The threads whose compare-and-swap succeeds, and whose fetch_and is
\* executed, in the step.
Claiming == {t \in Threads : pc[t] = "A_cas" /\ pc'[t] = "A_inc"}
Clearing == {t \in Threads : pc[t] = "D_fetch" /\ pc'[t] = "D_verify"}

\* C18: the successful compare-and-swap of an Allocate sets exactly one
\* bit, the one of the slot the call returns, and that bit was clear; the
\* fetch_and of Deallocate(a) on a held address clears exactly the bit of
\* a's slot, and that bit was set; every other bit of every word is left as
\* it was, also while another thread is in the middle of an update of the
\* same word; and no other step changes the bitmap.
C18_OneBitOnly ==
    [][constructed
        => /\ \A t \in Claiming :
                /\ <<word[t], offset[t]>> \notin SetBits
                /\ SetBits' = SetBits \cup {<<word[t], offset[t]>>}
           /\ \A t \in Clearing :
                /\ PositionOf(element[t]) = <<word[t], offset[t]>>
                /\ PositionOf(element[t]) \in SetBits
                /\ SetBits' = SetBits \ {PositionOf(element[t])}
           /\ (Claiming = {} /\ Clearing = {}) => mUsage' = mUsage
           /\ \A t \in Threads :
                (pc[t] = "A_inc" /\ pc'[t] = "A_done")
                => PositionOf(ret'[t]) = <<word[t], offset[t]>>
      ]_vars

\* One thread has just set a bit of a word in which another thread has just
\* cleared a different bit, and a third bit of the bitmap is set.
C18_Witness ==
    \E t, u \in Threads :
        /\ pc[t] = "A_inc" /\ pc[u] = "D_verify"
        /\ word[t] = word[u] /\ offset[t] # offset[u]
        /\ <<word[t], offset[t]>> \in SetBits
        /\ <<word[u], offset[u]>> \notin SetBits
        /\ Cardinality(SetBits) >= 2

\* ----------------------------------------------------------------- C19

\* C19: under concurrency Allocate can claim slot j while a slot i < j is
\* free at the moment of the claim; this happens only when another thread
\* changed the bitmap while the call was scanning, that is, when slot i was
\* released after the scan had passed it.
C19_NotLowestOnlyUnderRace ==
    \A t \in Threads :
        (pc[t] \in {"A_inc", "A_done"} /\ lowerFree[t]) => interfered[t]

\* An Allocate call returned slot j although a lower slot, which the other
\* thread has just released, was free when the call claimed j.
C19_Witness ==
    \E t, u \in Threads :
        /\ t # u
        /\ pc[t] = "A_done" /\ ret[t] # nullptr /\ lowerFree[t]
        /\ pc[u] \in {"D_verify", "D_done"}
        /\ element[u] < ret[t]
        /\ ~Occupied(IndexOf(element[u]))

\* ----------------------------------------------------------------- C20

\* Only Enumerate calls were logged before the k-th call.
FreshAt(k) == \A j \in 1 .. (k - 1) : IsEnumerate(seqlog[j])

\* C20: construction stores zero in every bitmap word covering the
\* capacity, whatever the bitmap memory held before.  Right after
\* construction no slot is occupied; an Enumerate on the fresh pool never
\* invokes the predicate and returns "completed"; and the first Allocate
\* returns the storage base, the address of slot 0.
C20_ConstructionClears ==
    /\ [][(~constructed /\ constructed')
            => /\ DOMAIN mUsage' = WordsOf(mCapacity)
               /\ \A w \in WordsOf(mCapacity) : mUsage'[w] = 0]_vars
    /\ []((constructed /\ seqlog = << >> /\ pc[1] = "idle")
            => SetBits = {} /\ OccupiedSlots = {})
    /\ [](\A k \in LogIndex :
            FreshAt(k)
            => /\ seqlog[k].before = {}
               /\ IsEnumerate(seqlog[k])
                    => seqlog[k].visited = << >> /\ seqlog[k].completed
               /\ IsAllocate(seqlog[k]) => seqlog[k].ret = At(0))

\* On a pool of several bitmap words, the first call after construction was
\* an Enumerate that visited nothing and completed, and the Allocate after
\* it returned the storage base.
C20_Witness ==
    /\ mCapacity > kBitChunkSize
    /\ Len(seqlog) >= 2
    /\ IsEnumerate(seqlog[1])
    /\ seqlog[1].visited = << >> /\ seqlog[1].completed
    /\ IsAllocate(seqlog[2])
    /\ seqlog[2].ret = mElements

\* ----------------------------------------------------------------- C21

\* The logged Allocate calls that returned a slot.
SuccessfulCalls == {k \in LogIndex : seqlog[k].ret # nullptr}

Min(a, b) == IF a < b THEN a ELSE b

\* C21: when only Allocate is called, starting from the empty pool, the
\* calls that return a slot return pairwise distinct slot addresses; a call
\* returns null only if every slot is occupied at its return; and once all
\* T calls made have returned, exactly min(T, capacity) of them returned a
\* slot.
C21_AllocateOnlyRace ==
    /\ \A k \in LogIndex :
          /\ seqlog[k].op = "A_done"
          /\ seqlog[k].ret = nullptr => seqlog[k].after = Slots
          /\ seqlog[k].ret # nullptr => IsSlotAddress(seqlog[k].ret)
    /\ \A j, k \in SuccessfulCalls : j # k => seqlog[j].ret # seqlog[k].ret
    /\ CallsStarted = Len(seqlog)
          => Cardinality(SuccessfulCalls) = Min(Len(seqlog), mCapacity)

\* Two calls raced for the last slot: the one that lost returned null
\* before the one that claimed the slot returned it.
C21_Witness ==
    \E k \in LogIndex :
        /\ k + 1 \in LogIndex
        /\ mCapacity >= 2
        /\ seqlog[k].ret = nullptr
        /\ seqlog[k + 1].ret # nullptr
        /\ CallsStarted = Len(seqlog)
        /\ Cardinality(SuccessfulCalls) = mCapacity

\* ----------------------------------------------------------------- C22

\* C22: a fatal Deallocate leaves the pool as it found it.  When IndexOf
\* rejects the address the call fails before any access to the bitmap; on
\* a double free the fetch_and finds the bit clear and changes no bit, and
\* the failing check comes before the counter is touched.  So at the
\* failure the occupied slots and the usage counter are those of the
\* moment of the call.
C22_FatalDeallocateNoEffect ==
    /\ [](\A k \in LogIndex :
            seqlog[k].op = "fatal"
            => /\ seqlog[k].after = seqlog[k].before
               /\ seqlog[k].live = LiveBefore(k))
    /\ [][\A t \in Threads :
            /\ (pc[t] = "idle" /\ pc'[t] = "fatal")
                  => mUsage' = mUsage /\ liveCount' = liveCount
            /\ (pc[t] = "D_fetch" /\ pc'[t] = "D_verify"
                    /\ ~BitSet(mUsage[word[t]], offset[t]))
                  => mUsage' = mUsage /\ liveCount' = liveCount
            /\ (pc[t] = "D_verify" /\ pc'[t] = "fatal")
                  => /\ mUsage' = mUsage /\ liveCount' = liveCount
                     /\ ~BitSet(value[t], offset[t])
      ]_vars

\* A double free of a slot whose neighbour in the same bitmap word is
\* occupied was fatal.
C22_Witness ==
    \E k \in LogIndex :
        /\ seqlog[k].op = "fatal"
        /\ IsSlotAddress(seqlog[k].arg)
        /\ \E i \in seqlog[k].before :
              /\ i # IndexOf(seqlog[k].arg)
              /\ i \div kBitChunkSize = IndexOf(seqlog[k].arg) \div kBitChunkSize
        /\ seqlog[k].live >= 1

\* ----------------------------------------------------------------- C23

\* The threads whose Deallocate(a) has executed its fetch_and, with no
\* compare-and-swap claiming a's slot since.
PastFetchAnd(a) ==
    {t \in Threads : pc[t] \in {"D_verify", "D_done"} /\ element[t] = a /\ ~reclaimed[t]}

\* The Deallocate of thread t has returned normally, or has found its bit
\* set and is about to.
PassesCheck(t) ==
    pc[t] = "D_done" \/ (pc[t] = "D_verify" /\ BitSet(value[t], offset[t]))

\* C23, amended: of the Deallocate calls on one address between which no
\* Allocate has claimed the slot again, at most one passes the check of the
\* bit, and never do two of them return normally.  A fetch_and finds the
\* bit set exactly if it is set in the bitmap, as it is for an address that
\* is held, and leaves it clear; so the first of the calls passes the check
\* and every later one finds the bit clear.  A call that passed goes on to
\* DecreaseUsage and returns normally; a call that found the bit clear
\* fails fatally and leaves the usage counter alone, so that the counter is
\* decremented by at most one of the calls.  The fatal failure ends
\* the process: a call that passed the check but has not yet returned by
\* then never returns.
C23_ConcurrentDoubleFree ==
    /\ [](\A a \in SlotAddresses :
            /\ Cardinality({t \in PastFetchAnd(a) : PassesCheck(t)}) <= 1
            /\ PastFetchAnd(a) # {} => ~Occupied(IndexOf(a)))
    /\ [][\A t \in Threads :
            /\ (pc[t] = "D_fetch" /\ pc'[t] = "D_verify")
                  => /\ BitSet(value'[t], offset[t]) <=> Occupied(IndexOf(element[t]))
                     /\ ~Occupied(IndexOf(element[t]))'
            /\ (pc[t] = "D_verify" /\ pc'[t] # "D_verify")
                  => IF BitSet(value[t], offset[t])
                     THEN pc'[t] = "D_done" /\ ~died'
                     ELSE pc'[t] = "fatal" /\ liveCount' = liveCount /\ died'
            /\ died => (pc' = pc /\ liveCount' = liveCount /\ mUsage' = mUsage)
      ]_vars

\* Two threads called Deallocate on the same address at the same time.  The
\* fetch_and of one found the bit set, that of the other found it clear and
\* its call has failed fatally, before the first call returned.
C23_Witness ==
    \E t, u \in Threads :
        /\ t # u
        /\ pc[t] = "D_verify" /\ pc[u] = "fatal"
        /\ element[t] = element[u]
        /\ ~reclaimed[t] /\ ~reclaimed[u]
        /\ BitSet(value[t], offset[t])
        /\ died

\* C23 as stated: when one of two concurrent Deallocate calls on the same
\* address, with no Allocate claiming the slot in between, has failed
\* fatally, the other has returned normally.
C23_AsStated ==
    \A t, u \in Threads :
        (/\ t # u
         /\ pc[u] = "fatal" /\ pc[t] \in {"D_verify", "D_done"}
         /\ element[t] = element[u] /\ element[t] \in SlotAddresses
         /\ ~reclaimed[t] /\ ~reclaimed[u])
        => pc[t] = "D_done"

\* ----------------------------------------------------------------- C24

\* Two threads hold the same address.
Aliased == \E t, u \in Threads : t # u /\ held[t] \cap held[u] # {}

\* C24: Deallocate looks only at the slot's bit, not at who holds the slot.
\* A Deallocate whose fetch_and finds the bit set returns normally and
\* leaves the bit clear until some Allocate claims the slot again, also when
\* the caller does not hold the address; so two callers come to hold one
\* address only after some Deallocate was passed an address its caller did
\* not hold.
C24_StaleFreeUndetected ==
    /\ [](Aliased => misuse)
    /\ [](\A t \in Threads :
            (pc[t] \in {"D_verify", "D_done"} /\ ~reclaimed[t])
            => ~Occupied(IndexOf(element[t])))
    /\ [][\A t \in Threads :
            (pc[t] = "D_verify" /\ pc'[t] # "D_verify" /\ BitSet(value[t], offset[t]))
            => pc'[t] = "D_done" /\ ~died']_vars

\* A thread freed an address again after the other thread had been given
\* it; the call returned normally, and the Allocate after it returned the
\* address the other thread still holds.
C24_Witness ==
    \E t, u \in Threads :
        /\ t # u
        /\ pc[t] = "A_done" /\ ret[t] # nullptr
        /\ ret[t] \in held[u]
        /\ misuse /\ ~died
        /\ Occupied(IndexOf(ret[t]))

\* ----------------------------------------------------------------- C25

\* The addresses the lambda of thread t's call has been given so far, in order.
GivenAddresses(t) == [n \in 1 .. Len(visited[t]) |-> visited[t][n][1]]

\* How often the lambda of thread t's call has been given the address of slot i.
TimesGiven(t, i) ==
    Cardinality({n \in 1 .. Len(visited[t]) : visited[t][n][1] = At(i)})

\* C25: while other threads allocate and free, a ForEachActiveObjectInner
\* call gives its lambda no slot twice and no slot that was free during the
\* whole call so far; and a call that has run to completion has given its
\* lambda exactly once every slot that was occupied during the whole call.
C25_WeaklyConsistentWalk ==
    \A t \in Threads :
        /\ \A i \in Slots : TimesGiven(t, i) <= 1
        /\ \A n \in 1 .. Len(visited[t]) : visited[t][n][1] \in SlotAddresses
        /\ pc[t] \in WalkingPcs \cup {"E_done"}
              => \A i \in stayedFree[t] : TimesGiven(t, i) = 0
        /\ (pc[t] = "E_done" /\ completed[t])
              => \A i \in stayedSet[t] : TimesGiven(t, i) = 1

\* A walk ran to completion while the other thread claimed one slot and
\* released another: it has visited a slot that stayed occupied and one
\* that did not stay occupied, has passed over a slot that stayed free and
\* over one that did not stay free.
C25_Witness ==
    \E t \in Threads :
        /\ pc[t] = "E_done" /\ completed[t]
        /\ stayedSet[t] # {} /\ stayedFree[t] # {}
        /\ \E i \in Slots \ stayedSet[t] : TimesGiven(t, i) = 1
        /\ \E i \in Slots \ stayedFree[t] : TimesGiven(t, i) = 0

\* ----------------------------------------------------------------- C26

\* Thread t's walk deals with the position it stands at in this step.
TestsPosition(t) ==
    /\ pc[t] = "E_test"
    /\ InCapacity(word[t], offset[t])
    /\ offset'[t] # offset[t] \/ pc'[t] # "E_test"

\* The lambda of thread t's walk is called in this step.
CallsLambda(t) == pc'[t] # "idle" /\ visited'[t] # visited[t]

\* C26: the walk decides what to visit in a word from one load of the word,
\* taken before the first visit in that word.  The load at the head of the
\* outer loop is the only assignment to the walk's copy of the word; the
\* lambda is called on a position exactly if the bit of the position is set
\* in the copy, whatever the word holds by then: a slot freed since the
\* load, by another thread or by the lambda itself, is still passed, and a
\* slot claimed since the load is not.
C26_WalkUsesOneLoad ==
    [][\A t \in Threads :
        /\ (pc[t] = "E_load" /\ pc'[t] = "E_test")
              => /\ value'[t] = mUsage[word[t]]
                 /\ offset'[t] = 0 /\ word'[t] = word[t]
                 /\ visited'[t] = visited[t]
        /\ (pc[t] \in {"E_test"} \cup LambdaPcs /\ pc'[t] \in {"E_test"} \cup LambdaPcs)
              => value'[t] = value[t] /\ word'[t] = word[t]
        /\ TestsPosition(t)
              => (CallsLambda(t) <=> BitSet(value[t], offset[t]))
        /\ CallsLambda(t)
              => /\ TestsPosition(t)
                 /\ Len(visited'[t]) = Len(visited[t]) + 1
                 /\ visited'[t][Len(visited'[t])][1] = At(word[t] * kBitChunkSize + offset[t])
      ]_vars

\* A walk has passed both slots of a word to its lambda, from a load that
\* saw both occupied; by now both are free and the word is zero.
C26_Witness ==
    \E t \in Threads :
        /\ pc[t] = "E_test"
        /\ offset[t] = kBitChunkSize
        /\ value[t] = Pow2(kBitChunkSize) - 1
        /\ mUsage[word[t]] = 0
        /\ Len(visited[t]) >= kBitChunkSize
        /\ visited[t][Len(visited[t])][1] = At(word[t] * kBitChunkSize + kBitChunkSize - 1)

\* ----------------------------------------------------------------- C27

\* Thread t takes a step of a ForEachActiveObjectInner call in this step.
WalkStep(t) ==
    \/ pc[t] = "idle" /\ pc'[t] = "E_load"
    \/ pc[t] \in WalkingPcs /\ (pc'[t] # pc[t] \/ offset'[t] # offset[t])

\* C27: the walk is read-only and never fatal.  With a lambda that does
\* nothing to the pool, no step of a ForEachActiveObjectInner call changes
\* a bitmap word or the usage counter or fails a check, whether the call
\* runs to completion or is stopped by its lambda.
C27_WalkReadOnly ==
    [][\A t \in Threads :
        WalkStep(t)
        => /\ mUsage' = mUsage
           /\ liveCount' = liveCount
           /\ died' = died
           /\ pc'[t] \in WalkingPcs \cup {"E_done"}
           /\ held' = held
      ]_vars

\* One walk has run to completion and another was stopped by its lambda,
\* each after visiting occupied slots.
C27_Witness ==
    \E t, u \in Threads :
        /\ pc[t] = "E_done" /\ completed[t] /\ Len(visited[t]) >= 2
        /\ pc[u] = "E_done" /\ ~completed[u] /\ Len(visited[u]) >= 1
        /\ liveCount = Cardinality(SetBits)
        /\ liveCount >= 2

\* ----------------------------------------------------------------- C28

\* The calls a function makes first when it restarts advertising.
RestartsAdvertiser ==
    /\ Len(calls) >= 3
    /\ calls[1] = [fn |-> "StopPublishDevice", arg |-> "-"]
    /\ calls[2] = [fn |-> "Start", arg |-> "-"]
    /\ calls[3] = [fn |-> "AdvertiseOperational", arg |-> "-"]

\* C28: the discovery expiration callback acts only when the scheduled
\* expiration has been reached.  If it finds the expiration cleared, or
\* later than the current time, it makes no call at all and leaves both
\* expiration times as they are.  Otherwise it stops and starts the
\* advertiser, advertises the operational node again and leaves the
\* discovery expiration cleared; a callback that follows it at once makes
\* no call.
C28_ExpirationCallback ==
    /\ [](handler.fn = "OnDiscoveryExpiration"
            => IF handler.expiration = TIMEOUT_CLEARED \/ handler.expiration > now
               THEN /\ calls = <<>>
                    /\ mDiscoveryExpirationMs = handler.expiration
                    /\ mExtendedDiscoveryExpirationMs = handler.extendedExpiration
               ELSE /\ RestartsAdvertiser
                    /\ mDiscoveryExpirationMs = TIMEOUT_CLEARED)
    /\ [][(/\ handler.fn = "OnDiscoveryExpiration"
           /\ calls # <<>>
           /\ handler'.fn = "OnDiscoveryExpiration"
           /\ timers' # timers)
          => /\ calls' = <<>>
             /\ mDiscoveryExpirationMs' = TIMEOUT_CLEARED
             /\ mExtendedDiscoveryExpirationMs' = mExtendedDiscoveryExpirationMs]_vars

\* The callback has acted at the very instant of the expiration, and
\* another discovery timer is due.
C28_Witness ==
    /\ handler.fn = "OnDiscoveryExpiration"
    /\ handler.expiration = now /\ now > 0
    /\ RestartsAdvertiser
    /\ mDiscoveryExpirationMs = TIMEOUT_CLEARED
    /\ \E tm \in BagToSet(timers) : tm[1] = "HandleDiscoveryExpiration" /\ tm[2] <= now

\* ----------------------------------------------------------------- C29

\* The positions in `calls` of the calls of function f.
CallsOf(f) == {n \in 1 .. Len(calls) : calls[n].fn = f}

\* StartServer begins by clearing the timeouts and restarting advertising.
ClearsAndRestarts ==
    /\ Len(calls) >= 4
    /\ calls[1] = [fn |-> "ClearTimeouts", arg |-> "-"]
    /\ calls[2] = [fn |-> "StopPublishDevice", arg |-> "-"]
    /\ calls[3] = [fn |-> "Start", arg |-> "-"]
    /\ calls[4] = [fn |-> "AdvertiseOperational", arg |-> "-"]

\* C29, amended: StartServer(mode) first clears the timeouts and restarts
\* the advertiser.  Without an initialized fabric, in a build with
\* commissionable discovery, it then advertises the commissionable node
\* with mode kEnabledBasic, whatever mode is, and runs
\* ScheduleDiscoveryExpiration, which sets the expiration to the current
\* time plus the timeout and starts the timer unless the timeout is
\* NO_TIMEOUT, in which case it sets no expiration and starts no timer.
\* Without an initialized fabric in a build without commissionable
\* discovery it advertises no commissionable node and schedules nothing.
\* With an initialized fabric and a mode other than kDisabled it advertises
\* the commissionable node with exactly that mode; with an initialized
\* fabric it never schedules a discovery expiration.
C29_StartServer ==
    handler.fn = "StartServer"
    => /\ ClearsAndRestarts
       /\ (~fabricInitialized /\ "COMMISSIONABLE_DISCOVERY" \in buildFlags)
             => /\ calls[5] = [fn |-> "AdvertiseCommissionableNode", arg |-> "kEnabledBasic"]
                /\ CallsOf("AdvertiseCommissionableNode") = {5}
                /\ calls[6] = [fn |-> "ScheduleDiscoveryExpiration", arg |-> "-"]
                /\ IF mDiscoveryTimeoutSecs = CHIP_DEVICE_CONFIG_DISCOVERY_NO_TIMEOUT
                   THEN /\ mDiscoveryExpirationMs = TIMEOUT_CLEARED
                        /\ CallsOf("StartTimer") = {}
                   ELSE /\ mDiscoveryExpirationMs = now + mDiscoveryTimeoutSecs * 1000
                        /\ calls[7] = [fn |-> "StartTimer", arg |-> "HandleDiscoveryExpiration"]
       /\ (~fabricInitialized /\ "COMMISSIONABLE_DISCOVERY" \notin buildFlags)
             => /\ CallsOf("AdvertiseCommissionableNode") = {}
                /\ CallsOf("ScheduleDiscoveryExpiration") = {}
                /\ CallsOf("StartTimer") = {}
                /\ mDiscoveryExpirationMs = TIMEOUT_CLEARED
                /\ mExtendedDiscoveryExpirationMs = TIMEOUT_CLEARED
       /\ fabricInitialized
             => /\ handler.mode # "kDisabled"
                     => /\ calls[5] = [fn |-> "AdvertiseCommissionableNode", arg |-> handler.mode]
                        /\ CallsOf("AdvertiseCommissionableNode") = {5}
                /\ CallsOf("ScheduleDiscoveryExpiration") = {}
                /\ \A n \in CallsOf("StartTimer") : calls[n].arg # "HandleDiscoveryExpiration"
                /\ mDiscoveryExpirationMs = TIMEOUT_CLEARED

\* StartServer(kDisabled) on a device without fabric, while an earlier
\* discovery expiration was pending: the commissionable node is advertised
\* as kEnabledBasic and a new expiration is scheduled.
C29_Witness ==
    /\ handler.fn = "StartServer"
    /\ handler.mode = "kDisabled"
    /\ ~fabricInitialized
    /\ handler.expiration # TIMEOUT_CLEARED
    /\ Len(calls) >= 7
    /\ calls[5].arg = "kEnabledBasic"
    /\ mDiscoveryExpirationMs > handler.expiration

\* C29 as stated: whatever the build and the configured timeout, StartServer
\* without an initialized fabric advertises the commissionable node with
\* mode kEnabledBasic and schedules the discovery expiration.
C29_AsStated ==
    (handler.fn = "StartServer" /\ ~fabricInitialized)
    => /\ CallsOf("AdvertiseCommissionableNode") # {}
       /\ \A n \in CallsOf("AdvertiseCommissionableNode") : calls[n].arg = "kEnabledBasic"
       /\ CallsOf("ScheduleDiscoveryExpiration") # {}
       /\ mDiscoveryExpirationMs = now + mDiscoveryTimeoutSecs * 1000

\* ----------------------------------------------------------------- C30

\* C30: IndexOf is the inverse of At on slot addresses: for every slot i,
\* At(i) passes the checks of IndexOf and IndexOf(At(i)) = i.  Deallocate
\* works on word IndexOf(element) div kBitChunkSize and bit
\* IndexOf(element) mod kBitChunkSize, the position At maps back to the
\* address it was given; so a Deallocate of an address Allocate returned
\* clears exactly the bit that Allocate set.
C30_IndexOfInvertsAt ==
    /\ constructed => \A i \in Slots : IndexOfOk(At(i)) /\ IndexOf(At(i)) = i
    /\ \A t \in Threads :
          pc[t] \in {"D_fetch", "D_verify"}
          => /\ word[t] = IndexOf(element[t]) \div kBitChunkSize
             /\ offset[t] = IndexOf(element[t]) % kBitChunkSize
             /\ At(word[t] * kBitChunkSize + offset[t]) = element[t]
    /\ \A n \in 1 .. Len(seqlog) :
          /\ (seqlog[n].op = "A_done" /\ seqlog[n].ret # nullptr)
                => /\ IndexOf(seqlog[n].ret) \notin seqlog[n].before
                   /\ seqlog[n].after = seqlog[n].before \cup {IndexOf(seqlog[n].ret)}
          /\ (seqlog[n].op = "D_done" /\ n > 1 /\ seqlog[n - 1].op = "A_done"
                /\ seqlog[n].arg = seqlog[n - 1].ret)
                => /\ seqlog[n].after = seqlog[n - 1].before
                   /\ seqlog[n].after = seqlog[n].before \ {IndexOf(seqlog[n].arg)}

\* Allocate returned the address of the last slot of a pool of two-byte
\* elements, in the second bit of the second word, and Deallocate of that
\* address has completed.
C30_Witness ==
    /\ mElementSize = 2
    /\ \E n \in 2 .. Len(seqlog) :
          /\ seqlog[n].op = "D_done"
          /\ seqlog[n - 1].op = "A_done"
          /\ seqlog[n].arg = seqlog[n - 1].ret
          /\ IndexOf(seqlog[n].arg) = 3
          /\ seqlog[n].after = {0, 1, 2}

====
